---------------------------- MODULE Spec2Model ----------------------------
(***************************************************************************)
(* Map clustering, hit-testing and selection engine of usk-social.         *)
(*                                                                         *)
(* The component modelled is InteractiveMap as found in                    *)
(* src/src/components/sketch/SketchModal.tsx (lines 170-1397); the older   *)
(* variant in src/src/components/map/InteractiveMap.tsx shares the Cluster *)
(* Builder and the Zoom-to-Separate Calculator verbatim and has its own    *)
(* click handler, modelled by the Legacy* definitions.                     *)
(*                                                                         *)
(* Units.  Latitudes/longitudes are integers in milli-degrees.  Projected  *)
(* pixels coming from Leaflet are whole pixels; blob centres and cloud     *)
(* positions are kept in sub-pixels (1/SubPx pixel) so that the averages   *)
(* and the eased distances the code computes in floating point stay exact. *)
(* Animation time is counted in ticks of 0.8 s.                            *)
(***************************************************************************)
EXTENDS Integers, Sequences, FiniteSets, TLC

VARIABLES
    sketches,              \* props.sketches: the list of sketch ids, in input order
    events,                \* useState events: the lookup event id -> Event
    mapReady,              \* mapInstanceRef.current is set
    layout,                \* Leaflet's current projection: place -> container pixel
    zoom,                  \* useState zoom
    center,                \* useState center (the requested / reported viewport centre)
    selectedEventId,       \* useState selectedEventId
    selectedSketch,        \* useState selectedSketch
    selectionTime,         \* selectionTimeRef: event id -> animation start time
    animationTime,         \* animationTimeRef, in ticks
    sketchCloudPositions,  \* useState sketchCloudPositions: list of [id, x, y]
    mounted,               \* the view exists: canvasRef.current is set, listeners attached
    animationFrame,        \* animationFrameRef: is the frame it names still pending or done
    pendingFrames,         \* number of frame callbacks the browser holds for this view
    imageCache,            \* imageCacheRef: the urls with a decoded image
    imageLoads,            \* url -> number of Image objects still loading it
    effectPending,         \* a commit changed the image effect's dependencies and it has not run yet
    last,                  \* history: the click (in SpecZoom, SpecCluster: the call) that ran last
    pair                   \* history: the two most recent clicks on one single blob

vars == <<sketches, events, mapReady, layout, zoom, center, selectedEventId,
          selectedSketch, selectionTime, animationTime, sketchCloudPositions,
          mounted, animationFrame, pendingFrames, imageCache, imageLoads,
          effectPending, last, pair>>

\* The render loop's frame queue and the thumbnail cache.  The specifications
\* of the Cluster Builder, the hit test and the selection machine leave them
\* as constructed; SpecView follows them.
viewVars == <<mounted, animationFrame, pendingFrames, imageCache, imageLoads,
              effectPending>>

None == "none"

Min(a, b) == IF a < b THEN a ELSE b
Max(a, b) == IF a > b THEN a ELSE b
Abs(a) == IF a < 0 THEN -a ELSE a

RECURSIVE Pow2(_)
Pow2(n) == IF n <= 0 THEN 1 ELSE 2 * Pow2(n - 1)

RECURSIVE SumSeq(_)
SumSeq(s) == IF s = <<>> THEN 0 ELSE Head(s) + SumSeq(Tail(s))

RECURSIVE Concat(_)
Concat(ss) == IF ss = <<>> THEN <<>> ELSE Head(ss) \o Concat(Tail(ss))

Range(s) == {s[i] : i \in DOMAIN s}

\* A sequence given as a function over 1..n, as an explicit tuple.
AsSeq(f) == f \o <<>>

(***************************************************************************)
(* Bounds of the model.                                                    *)
(***************************************************************************)
MaxTime == 2          \* animationTime never exceeds this many ticks
ZoomCap == 18         \* the zoom state is explored up to this level
MaxZoomInput == 22    \* largest zoom given to the Zoom-to-Separate Calculator on its own
MaxLoads == 2          \* loads of one url followed at a time
MaxPendingFrames == 2  \* frame callbacks followed at a time
MaxIdLen == 7          \* longest event id given to generatePastelColor on its own

(***************************************************************************)
(* Program constants.                                                      *)
(***************************************************************************)
SubPx == 24                      \* sub-pixels per pixel (unit of blob.x, blob.y)
initialZoom == 12
baseMergeDistance == 80
requiredPixelSeparation == 200
OrphanHitRadius == 15
CloudHitRadius == 20
AnimationTicks == 1              \* animationDuration = 0.8 s, in ticks
MaxFrameDelta == 1               \* a frame gap above 1 s is not counted (whole ticks)
MaxSeparationZoom == 20
NotReadyCoord == -1000

NOT_READY == <<NotReadyCoord, NotReadyCoord>>

(***************************************************************************)
(* Data feed: sketches and events (external collaborators).                *)
(***************************************************************************)
EventIds == {"E1", "E2", "E3"}

\* Places of the map, <<latitude, longitude>> in milli-degrees.
PlaceA == <<6240, -75560>>
PlaceB == <<6250, -75570>>
PlaceC == <<6800, -75000>>
PlaceO == <<6300, -75500>>
PlaceZ == <<0, -75000>>
Places == {PlaceA, PlaceB, PlaceC, PlaceO}

\* A nullable number: Null, or Num(v).
Null == <<>>
Num(v) == <<v>>
Val(c) == c[1]

\* Sketches of a well-attended event: fourteen of E1, twelve of E2.
BulkE1 == {"A01", "A02", "A03", "A04", "A05", "A06", "A07",
           "A08", "A09", "A10", "A11", "A12", "A13", "A14"}
BulkE2 == {"B01", "B02", "B03", "B04", "B05", "B06",
           "B07", "B08", "B09", "B10", "B11", "B12"}

\* The Sketch rows (event_id, latitude, longitude); every sketch handed to the
\* map by pages/Map.tsx has coordinates.
Sketch(id) ==
    CASE id = "S1" -> [id |-> "S1", event_id |-> "E1", latitude |-> Num(6241), longitude |-> Num(-75561)]
      [] id = "S2" -> [id |-> "S2", event_id |-> "E1", latitude |-> Num(6242), longitude |-> Num(-75562)]
      [] id = "S3" -> [id |-> "S3", event_id |-> "E2", latitude |-> Num(6251), longitude |-> Num(-75571)]
      [] id = "S4" -> [id |-> "S4", event_id |-> "E3", latitude |-> Num(6801), longitude |-> Num(-75001)]
      [] id = "O1" -> [id |-> "O1", event_id |-> None, latitude |-> Num(PlaceO[1]), longitude |-> Num(PlaceO[2])]
      [] id = "Z1" -> [id |-> "Z1", event_id |-> None, latitude |-> Num(PlaceZ[1]), longitude |-> Num(PlaceZ[2])]
      [] id = "D1" -> [id |-> "D1", event_id |-> "E4", latitude |-> Num(PlaceB[1]), longitude |-> Num(PlaceB[2])]
      [] id \in BulkE1 -> [id |-> id, event_id |-> "E1", latitude |-> Num(6241), longitude |-> Num(-75561)]
      [] id \in BulkE2 -> [id |-> id, event_id |-> "E2", latitude |-> Num(6251), longitude |-> Num(-75571)]

SketchIds == {"S1", "S2", "S3", "S4", "O1"}

\* sketch.thumbnail_url || sketch.image_url; S1 and S2 show the same file.
Urls == {"u1", "u3", "u4", "uo"}
ImageUrl(id) ==
    CASE id \in {"S1", "S2"} -> "u1"
      [] id = "S3" -> "u3"
      [] id = "S4" -> "u4"
      [] id = "O1" -> "uo"
      [] OTHER -> None

\* Input orders of the sketch list: one per order of first appearance of the events.
ListE1E2E3 == <<"S1", "O1", "S3", "S2", "S4">>
ListE3E1E2 == <<"S4", "S1", "S2", "O1", "S3">>
ListE2E3E1 == <<"S3", "S4", "O1", "S1", "S2">>
ListE1E3E2 == <<"S1", "S4", "S2", "S3", "O1">>
ListE2E1E3 == <<"S3", "S1", "O1", "S4", "S2">>
ListE3E2E1 == <<"S4", "S3", "S2", "S1", "O1">>
SketchLists == {ListE1E2E3}
AllSketchLists == {ListE1E2E3, ListE3E1E2, ListE2E3E1, ListE1E3E2, ListE2E1E3, ListE3E2E1}

\* Answers of the events query.
EventsDistinct == [e \in EventIds |->
    CASE e = "E1" -> [latitude |-> Num(PlaceA[1]), longitude |-> Num(PlaceA[2])]
      [] e = "E2" -> [latitude |-> Num(PlaceB[1]), longitude |-> Num(PlaceB[2])]
      [] e = "E3" -> [latitude |-> Num(PlaceC[1]), longitude |-> Num(PlaceC[2])]]
EventsSamePlace == [e \in EventIds |->
    CASE e = "E1" -> [latitude |-> Num(PlaceA[1]), longitude |-> Num(PlaceA[2])]
      [] e = "E2" -> [latitude |-> Num(PlaceA[1]), longitude |-> Num(PlaceA[2])]
      [] e = "E3" -> [latitude |-> Num(PlaceC[1]), longitude |-> Num(PlaceC[2])]]
EventTables == {EventsDistinct}
ZoomEventTables == {EventsDistinct, EventsSamePlace}
NoEvents == [e \in {} |-> None]

(***************************************************************************)
(* Leaflet projections (external): what latLngToContainerPoint answers in  *)
(* the viewports explored.                                                 *)
(***************************************************************************)
LayoutClose == [p \in Places |->
    CASE p = PlaceA -> <<100, 100>>
      [] p = PlaceB -> <<150, 100>>
      [] p = PlaceC -> <<200, 70>>
      [] p = PlaceO -> <<110, 100>>]
LayoutTight == [p \in Places |->
    CASE p = PlaceA -> <<100, 100>>
      [] p = PlaceB -> <<120, 100>>
      [] p = PlaceC -> <<400, 300>>
      [] p = PlaceO -> <<300, 300>>]
Layouts == {LayoutClose, LayoutTight}

\* Canvas size in pixels, <<width, height>>.
CanvasSize == <<800, 600>>

\* Pointer positions tried by the click handler, in pixels.
ClickPoints == {<<90, 100>>, <<110, 100>>, <<190, 70>>, <<0, 105>>}

(***************************************************************************)
(* Projection Adapter.                                                     *)
(***************************************************************************)
\* JavaScript truthiness of a nullable number, and of a nullable string.
Truthy(c) == c /= Null /\ Val(c) /= 0
TruthyId(id) == id /= None

latLngToPixel(lat, lng) ==
    IF ~mapReady THEN NOT_READY
    ELSE IF <<lat, lng>> \in DOMAIN layout THEN layout[<<lat, lng>>] ELSE NOT_READY

\* dist < r for a vector in units where r is given in the same units.
Within(dx, dy, r) == Abs(dx) < r /\ Abs(dy) < r /\ dx * dx + dy * dy < r * r


(***************************************************************************)
(* Cluster Builder.                                                        *)
(***************************************************************************)
\* Sketches that can be placed under an event: event_id, latitude and
\* longitude all truthy.
HasEventAndLocation(id) ==
    /\ TruthyId(Sketch(id).event_id)
    /\ Truthy(Sketch(id).latitude)
    /\ Truthy(Sketch(id).longitude)

\* Keys of the sketchesByEvent Map, in insertion order.
RECURSIVE EventKeys(_, _)
EventKeys(s, acc) ==
    IF s = <<>> THEN acc
    ELSE IF HasEventAndLocation(Head(s)) /\ Sketch(Head(s)).event_id \notin Range(acc)
         THEN EventKeys(Tail(s), Append(acc, Sketch(Head(s)).event_id))
         ELSE EventKeys(Tail(s), acc)

\* The grouping with the event id of the sketch ignored.
OfAnyEvent(id, eventId) == HasEventAndLocation(id)

\* sketchesByEvent.get(eventId)
OfEvent(id, eventId) == HasEventAndLocation(id) /\ Sketch(id).event_id = eventId
sketchesByEvent(eventId) == SelectSeq(sketches, LAMBDA id : OfEvent(id, eventId))

\* The event is in the lookup with truthy coordinates, and its projection
\* is not the NOT_READY pair.
EventPlaced(eventId) ==
    /\ eventId \in DOMAIN events
    /\ Truthy(events[eventId].latitude)
    /\ Truthy(events[eventId].longitude)
    /\ LET p == latLngToPixel(Val(events[eventId].latitude), Val(events[eventId].longitude))
       IN ~(p[1] = NotReadyCoord /\ p[2] = NotReadyCoord)

\* The UTF-16 code units of an event id (eventId.charCodeAt(i)).
CharCodes(eventId) ==
    CASE eventId = "E1" -> <<69, 49>>
      [] eventId = "E2" -> <<69, 50>>
      [] eventId = "E3" -> <<69, 51>>
      [] eventId = "E4" -> <<69, 52>>

\* A JavaScript number h[1] * 2^27 + h[2] with 0 <= h[2] < 2^27: the hash is
\* a double, which holds every integer met here exactly.
Two22 == 4194304
Two26 == 67108864
Two27 == 134217728

\* hash = charCode + ((hash << 5) - hash): the shift works on the low 32 bits
\* of hash and answers a signed 32-bit integer, the subtraction and the sum
\* are ordinary number arithmetic.
HashStep(h, charCode) ==
    LET shiftedHigh == (h[2] \div Two22) - (IF h[2] >= Two26 THEN 32 ELSE 0)
        shiftedLow == (h[2] % Two22) * 32
        low == shiftedLow - h[2] + charCode
    IN <<shiftedHigh - h[1] + (low \div Two27), low % Two27>>

RECURSIVE HashOf(_, _)
HashOf(codes, h) ==
    IF codes = <<>> THEN h ELSE HashOf(Tail(codes), HashStep(h, Head(codes)))

\* JavaScript's hash % m: the remainder has the sign of hash.
JsRemainder(h, m) ==
    LET floorMod == ((h[1] % m) * (Two27 % m) + (h[2] % m)) % m
    IN IF h[1] < 0 /\ floorMod /= 0 THEN floorMod - m ELSE floorMod

\* The colour hsl(hue, saturation%, lightness%) as <<hue, saturation, lightness>>.
generatePastelColor(codes) ==
    LET hash == HashOf(codes, <<0, 0>>)
    IN <<(JsRemainder(hash, 360) + 360) % 360,
         60 + JsRemainder(hash, 30),
         65 + JsRemainder(hash, 15)>>

\* The base radius without its cap.
baseRadiusUncapped(n) == 20 + n * 3

baseRadius(n) == 20 + Min(n * 3, 40)
mergedRadius(totalSketches) == 25 + Min(totalSketches * 2, 50)

\* One unmerged blob; px, py are the projected whole pixels.
SingleBlob(eventId) ==
    LET p == latLngToPixel(Val(events[eventId].latitude), Val(events[eventId].longitude))
    IN [eventId |-> eventId,
        sketches |-> sketchesByEvent(eventId),
        px |-> p[1], py |-> p[2],
        x |-> SubPx * p[1], y |-> SubPx * p[2],
        radius |-> baseRadius(Len(sketchesByEvent(eventId))),
        mergedCount |-> 1,
        color |-> generatePastelColor(CharCodes(eventId)),
        mergedEventIds |-> <<>>]

\* The blobs array before the merge pass.
UnmergedBlobs ==
    LET keys == SelectSeq(EventKeys(sketches, <<>>), EventPlaced)
    IN AsSeq([i \in 1..Len(keys) |-> SingleBlob(keys[i])])

\* The zoom factor with the exponent's sign flipped: 2^(zoom - 12).
MergeDistanceGrowing(z) ==
    LET twiceFactor == IF z >= 11 THEN Pow2(Min(z - 11, 3)) ELSE 0
    IN (baseMergeDistance * Max(1, Min(4, twiceFactor))) \div 2

\* MERGE_DISTANCE = 80 * max(0.5, min(2, 2^(12 - zoom))), for a whole zoom level.
\* twice the zoom factor is 2^(13 - zoom); below 1 it is clamped to 1 anyway.
MERGE_DISTANCE(z) ==
    LET twiceFactor == IF z <= 13 THEN Pow2(13 - z) ELSE 0
    IN (baseMergeDistance * Max(1, Min(4, twiceFactor))) \div 2

\* The distance test taken on one side of the anchor only.
CloseEnoughOneWay(a, b, z) ==
    a.px <= b.px /\ Within(a.px - b.px, a.py - b.py, MERGE_DISTANCE(z))

\* The distance test with the threshold itself included: dist <= MERGE_DISTANCE.
CloseEnoughOrEqual(a, b, z) ==
    (a.px - b.px) * (a.px - b.px) + (a.py - b.py) * (a.py - b.py)
        <= MERGE_DISTANCE(z) * MERGE_DISTANCE(z)

\* dist < MERGE_DISTANCE between two unmerged blobs.
CloseEnough(a, b, z) == Within(a.px - b.px, a.py - b.py, MERGE_DISTANCE(z))

\* The merged blob named after the last event folded in, not the anchor.
MergeIntoLastId(blob, closeBlobs) ==
    IF Len(closeBlobs) > 1
    THEN [eventId |-> closeBlobs[Len(closeBlobs)].eventId,
          sketches |-> Concat([k \in 1..Len(closeBlobs) |-> closeBlobs[k].sketches]),
          px |-> blob.px, py |-> blob.py,
          x |-> (SubPx * SumSeq([k \in 1..Len(closeBlobs) |-> closeBlobs[k].px])) \div Len(closeBlobs),
          y |-> (SubPx * SumSeq([k \in 1..Len(closeBlobs) |-> closeBlobs[k].py])) \div Len(closeBlobs),
          radius |-> mergedRadius(SumSeq([k \in 1..Len(closeBlobs) |-> Len(closeBlobs[k].sketches)])),
          mergedCount |-> Len(closeBlobs),
          color |-> closeBlobs[Len(closeBlobs)].color,
          mergedEventIds |-> AsSeq([k \in 1..Len(closeBlobs) |-> closeBlobs[k].eventId])]
    ELSE blob

\* The blob pushed for anchor i with the list closeBlobs (anchor first).
MergeInto(blob, closeBlobs) ==
    IF Len(closeBlobs) > 1
    THEN [eventId |-> blob.eventId,
          sketches |-> Concat([k \in 1..Len(closeBlobs) |-> closeBlobs[k].sketches]),
          px |-> blob.px, py |-> blob.py,
          x |-> (SubPx * SumSeq([k \in 1..Len(closeBlobs) |-> closeBlobs[k].px])) \div Len(closeBlobs),
          y |-> (SubPx * SumSeq([k \in 1..Len(closeBlobs) |-> closeBlobs[k].py])) \div Len(closeBlobs),
          radius |-> mergedRadius(SumSeq([k \in 1..Len(closeBlobs) |-> Len(closeBlobs[k].sketches)])),
          mergedCount |-> Len(closeBlobs),
          color |-> blob.color,
          mergedEventIds |-> AsSeq([k \in 1..Len(closeBlobs) |-> closeBlobs[k].eventId])]
    ELSE blob

\* The merge pass that marks only its anchors as processed.
RECURSIVE MergePassForgetful(_, _, _, _, _)
MergePassForgetful(blobs, i, processed, merged, z) ==
    IF i > Len(blobs) THEN merged
    ELSE IF blobs[i].eventId \in processed THEN MergePassForgetful(blobs, i + 1, processed, merged, z)
    ELSE LET idx == {j \in 1..Len(blobs) :
                        /\ j /= i
                        /\ blobs[j].eventId \notin processed
                        /\ CloseEnough(blobs[i], blobs[j], z)}
             others == SelectSeq([j \in 1..Len(blobs) |-> j], LAMBDA j : j \in idx)
             closeBlobs == <<blobs[i]>> \o AsSeq([k \in 1..Len(others) |-> blobs[others[k]]])
         IN MergePassForgetful(blobs, i + 1,
                      processed \cup {blobs[i].eventId},
                      Append(merged, MergeInto(blobs[i], closeBlobs)), z)

\* The merge pass whose anchor looks at the next blob of the array only.
RECURSIVE MergePassNextOnly(_, _, _, _, _)
MergePassNextOnly(blobs, i, processed, merged, z) ==
    IF i > Len(blobs) THEN merged
    ELSE IF blobs[i].eventId \in processed THEN MergePassNextOnly(blobs, i + 1, processed, merged, z)
    ELSE LET idx == {j \in 1..Len(blobs) :
                        /\ j = i + 1
                        /\ blobs[j].eventId \notin processed
                        /\ CloseEnough(blobs[i], blobs[j], z)}
             others == SelectSeq([j \in 1..Len(blobs) |-> j], LAMBDA j : j \in idx)
             closeBlobs == <<blobs[i]>> \o AsSeq([k \in 1..Len(others) |-> blobs[others[k]]])
         IN MergePassNextOnly(blobs, i + 1,
                      processed \cup {blobs[j].eventId : j \in idx} \cup {blobs[i].eventId},
                      Append(merged, MergeInto(blobs[i], closeBlobs)), z)

\* The merge pass that also folds in a blob close to a blob it has folded in.
RECURSIVE MergePassChained(_, _, _, _, _)
MergePassChained(blobs, i, processed, merged, z) ==
    IF i > Len(blobs) THEN merged
    ELSE IF blobs[i].eventId \in processed THEN MergePassChained(blobs, i + 1, processed, merged, z)
    ELSE LET direct == {j \in 1..Len(blobs) :
                           /\ j /= i
                           /\ blobs[j].eventId \notin processed
                           /\ CloseEnough(blobs[i], blobs[j], z)}
             idx == direct \cup {j \in 1..Len(blobs) :
                                   /\ j /= i
                                   /\ blobs[j].eventId \notin processed
                                   /\ \E k \in direct : CloseEnough(blobs[k], blobs[j], z)}
             others == SelectSeq([j \in 1..Len(blobs) |-> j], LAMBDA j : j \in idx)
             closeBlobs == <<blobs[i]>> \o AsSeq([k \in 1..Len(others) |-> blobs[others[k]]])
         IN MergePassChained(blobs, i + 1,
                      processed \cup {blobs[j].eventId : j \in idx} \cup {blobs[i].eventId},
                      Append(merged, MergeInto(blobs[i], closeBlobs)), z)

\* The merge pass: blobs.forEach((blob, i) => ...), with the processed set.
RECURSIVE MergePass(_, _, _, _, _)
MergePass(blobs, i, processed, merged, z) ==
    IF i > Len(blobs) THEN merged
    ELSE IF blobs[i].eventId \in processed THEN MergePass(blobs, i + 1, processed, merged, z)
    ELSE LET idx == {j \in 1..Len(blobs) :
                        /\ j /= i
                        /\ blobs[j].eventId \notin processed
                        /\ CloseEnough(blobs[i], blobs[j], z)}
             others == SelectSeq([j \in 1..Len(blobs) |-> j], LAMBDA j : j \in idx)
             closeBlobs == <<blobs[i]>> \o AsSeq([k \in 1..Len(others) |-> blobs[others[k]]])
         IN MergePass(blobs, i + 1,
                      processed \cup {blobs[j].eventId : j \in idx} \cup {blobs[i].eventId},
                      Append(merged, MergeInto(blobs[i], closeBlobs)), z)

prepareBlobsAt(z) == MergePass(UnmergedBlobs, 1, {}, <<>>, z)
prepareBlobs == prepareBlobsAt(zoom)

\* The orphan filter without the test on event_id.
IsOrphanAnyEvent(id) ==
    /\ Truthy(Sketch(id).latitude)
    /\ Truthy(Sketch(id).longitude)
    /\ LET p == latLngToPixel(Val(Sketch(id).latitude), Val(Sketch(id).longitude))
       IN p[1] /= NotReadyCoord /\ p[2] /= NotReadyCoord

\* Orphan sketches: no event_id, truthy coordinates, projection ready.
IsOrphan(id) ==
    /\ ~TruthyId(Sketch(id).event_id)
    /\ Truthy(Sketch(id).latitude)
    /\ Truthy(Sketch(id).longitude)
    /\ LET p == latLngToPixel(Val(Sketch(id).latitude), Val(Sketch(id).longitude))
       IN p[1] /= NotReadyCoord /\ p[2] /= NotReadyCoord

prepareOrphanSketches ==
    LET ids == SelectSeq(sketches, IsOrphan)
    IN AsSeq([i \in 1..Len(ids) |->
          LET p == latLngToPixel(Val(Sketch(ids[i]).latitude), Val(Sketch(ids[i]).longitude))
          IN [sketch |-> ids[i], x |-> p[1], y |-> p[2]]])


(***************************************************************************)
(* Selection animation: drawSketchCloud.                                   *)
(***************************************************************************)
\* easeOutCubic(min(1, elapsed / animationDuration)) as the fraction
\* EasedNum(elapsed) / EasedDen.
EasedDen == AnimationTicks * AnimationTicks * AnimationTicks
EasedNum(elapsed) ==
    LET left == AnimationTicks - Min(AnimationTicks, elapsed)
    IN EasedDen - left * left * left

\* The noise-perturbed resting offset of cloud item `index` of `n` at animation
\* time t: (cos(finalAngle), sin(finalAngle)) * (baseDistance + distanceOffset),
\* evaluated from the fbm/gradNoise/hash formulas at t * 0.8 s and rounded to
\* whole pixels.  One row per (n, index), one entry per tick 0..4.
CloudTargetRow(n, index) ==
    CASE n = 1 /\ index = 0 -> <<<<91, -33>>, <<91, -33>>, <<93, -32>>, <<95, -31>>, <<97, -30>>>>
      [] n = 2 /\ index = 0 -> <<<<91, -33>>, <<91, -33>>, <<93, -32>>, <<95, -31>>, <<97, -30>>>>
      [] n = 2 /\ index = 1 -> <<<<-98, 7>>, <<-98, 7>>, <<-98, 7>>, <<-99, 8>>, <<-100, 8>>>>
      [] n = 3 /\ index = 0 -> <<<<91, -33>>, <<91, -33>>, <<93, -32>>, <<95, -31>>, <<97, -30>>>>
      [] n = 3 /\ index = 1 -> <<<<-43, 88>>, <<-43, 88>>, <<-43, 89>>, <<-43, 90>>, <<-43, 90>>>>
      [] n = 3 /\ index = 2 -> <<<<-44, -92>>, <<-44, -92>>, <<-43, -93>>, <<-43, -93>>, <<-43, -93>>>>
      [] n = 4 /\ index = 0 -> <<<<91, -33>>, <<91, -33>>, <<93, -32>>, <<95, -31>>, <<97, -30>>>>
      [] n = 4 /\ index = 1 -> <<<<7, 98>>, <<7, 98>>, <<7, 98>>, <<8, 99>>, <<8, 100>>>>
      [] n = 4 /\ index = 2 -> <<<<-102, -8>>, <<-102, -8>>, <<-102, -9>>, <<-102, -10>>, <<-102, -10>>>>
      [] n = 4 /\ index = 3 -> <<<<8, -104>>, <<9, -104>>, <<9, -104>>, <<10, -104>>, <<11, -104>>>>
CloudTarget(n, index, t) ==
    LET row == CloudTargetRow(n, index) IN row[Min(t, Len(row) - 1) + 1]

\* The start time drawSketchCloud uses: the stored one, or currentTime when
\* none is stored or the stored one is 0 (`get(eventId) || currentTime`).
SelectionTimeUsed(eventId, currentTime) ==
    IF eventId \in DOMAIN selectionTime /\ selectionTime[eventId] /= 0
    THEN selectionTime[eventId]
    ELSE currentTime

\* selectionTimeRef after drawSketchCloud: the entry is set when absent.
SelectionTimeRecorded(eventId, currentTime) ==
    IF eventId \in DOMAIN selectionTime THEN selectionTime
    ELSE [e \in DOMAIN selectionTime \cup {eventId} |->
            IF e = eventId THEN currentTime ELSE selectionTime[e]]

\* The positions Map drawSketchCloud stores, in sub-pixels, in sketch order.
drawSketchCloud(blob, currentTime) ==
    LET elapsed == currentTime - SelectionTimeUsed(blob.eventId, currentTime)
        n == Len(blob.sketches)
    IN AsSeq([i \in 1..n |->
          LET target == CloudTarget(n, i - 1, currentTime)
          IN [id |-> blob.sketches[i],
              x |-> blob.x + (SubPx * target[1] * EasedNum(elapsed)) \div EasedDen,
              y |-> blob.y + (SubPx * target[2] * EasedNum(elapsed)) \div EasedDen]])

(***************************************************************************)
(* Hit-Test Resolver.                                                      *)
(***************************************************************************)
FirstOf(S) == CHOOSE i \in S : \A j \in S : i <= j

OrphanHits(orphanSketches, x, y) ==
    {i \in DOMAIN orphanSketches :
        Within(orphanSketches[i].x - x, orphanSketches[i].y - y, OrphanHitRadius)}

BlobHits(blobs, x, y) ==
    {i \in DOMAIN blobs :
        Within(blobs[i].x - SubPx * x, blobs[i].y - SubPx * y, SubPx * blobs[i].radius)}

CloudHits(x, y) ==
    {i \in DOMAIN sketchCloudPositions :
        Within(sketchCloudPositions[i].x - SubPx * x, sketchCloudPositions[i].y - SubPx * y,
               SubPx * CloudHitRadius)}

SelectedBlobs(blobs) == {i \in DOMAIN blobs : blobs[i].eventId = selectedEventId}

NoHit == [kind |-> "none"]

\* checkBlobHit with the orphan loop moved after the blob loop.
HitTestBlobFirst(blobs, orphanSketches, x, y) ==
    IF BlobHits(blobs, x, y) /= {}
    THEN [kind |-> "blob", blob |-> blobs[FirstOf(BlobHits(blobs, x, y))]]
    ELSE IF OrphanHits(orphanSketches, x, y) /= {}
    THEN [kind |-> "orphan",
          orphanSketch |-> orphanSketches[FirstOf(OrphanHits(orphanSketches, x, y))].sketch]
    ELSE IF selectedEventId /= None /\ SelectedBlobs(blobs) /= {} /\ CloudHits(x, y) /= {}
    THEN [kind |-> "cloud", blob |-> blobs[FirstOf(SelectedBlobs(blobs))],
          sketchId |-> sketchCloudPositions[FirstOf(CloudHits(x, y))].id]
    ELSE NoHit

\* checkBlobHit answering a cloud thumbnail although no blob carries the
\* selected id (the thumbnail is then attributed to the first blob).
HitTestStaleCloud(blobs, orphanSketches, x, y) ==
    IF OrphanHits(orphanSketches, x, y) /= {}
    THEN [kind |-> "orphan",
          orphanSketch |-> orphanSketches[FirstOf(OrphanHits(orphanSketches, x, y))].sketch]
    ELSE IF BlobHits(blobs, x, y) /= {}
    THEN [kind |-> "blob", blob |-> blobs[FirstOf(BlobHits(blobs, x, y))]]
    ELSE IF selectedEventId /= None /\ blobs /= <<>> /\ CloudHits(x, y) /= {}
    THEN [kind |-> "cloud",
          blob |-> blobs[IF SelectedBlobs(blobs) /= {} THEN FirstOf(SelectedBlobs(blobs)) ELSE 1],
          sketchId |-> sketchCloudPositions[FirstOf(CloudHits(x, y))].id]
    ELSE NoHit

\* checkBlobHit: orphans, then blobs, then the cloud of the selected blob.
HitTest(blobs, orphanSketches, x, y) ==
    IF OrphanHits(orphanSketches, x, y) /= {}
    THEN [kind |-> "orphan",
          orphanSketch |-> orphanSketches[FirstOf(OrphanHits(orphanSketches, x, y))].sketch]
    ELSE IF BlobHits(blobs, x, y) /= {}
    THEN [kind |-> "blob", blob |-> blobs[FirstOf(BlobHits(blobs, x, y))]]
    ELSE IF selectedEventId /= None /\ SelectedBlobs(blobs) /= {} /\ CloudHits(x, y) /= {}
    THEN [kind |-> "cloud", blob |-> blobs[FirstOf(SelectedBlobs(blobs))],
          sketchId |-> sketchCloudPositions[FirstOf(CloudHits(x, y))].id]
    ELSE NoHit

checkBlobHit(x, y) == HitTest(prepareBlobs, prepareOrphanSketches, x, y)

(***************************************************************************)
(* Hover detection: handleMouseMove.                                       *)
(***************************************************************************)
NoHover == [hoveredBlob |-> None, hoveredOrphanSketch |-> None]

\* The blob loop going on to the next blob when the one hit is merged.
HoverSkippingMerged(blobs, orphanSketches, x, y) ==
    LET singles == {i \in BlobHits(blobs, x, y) : blobs[i].mergedCount = 1}
    IN IF OrphanHits(orphanSketches, x, y) /= {}
       THEN [hoveredBlob |-> None,
             hoveredOrphanSketch |-> orphanSketches[FirstOf(OrphanHits(orphanSketches, x, y))].sketch]
       ELSE IF singles /= {}
       THEN [hoveredBlob |-> blobs[FirstOf(singles)].eventId, hoveredOrphanSketch |-> None]
       ELSE NoHover

\* hoveredBlob and hoveredOrphanSketch as handleMouseMove sets them: the first
\* orphan within 15px, else the first blob hit when it is a single one.
Hover(blobs, orphanSketches, x, y) ==
    IF OrphanHits(orphanSketches, x, y) /= {}
    THEN [hoveredBlob |-> None,
          hoveredOrphanSketch |-> orphanSketches[FirstOf(OrphanHits(orphanSketches, x, y))].sketch]
    ELSE IF BlobHits(blobs, x, y) /= {} /\ blobs[FirstOf(BlobHits(blobs, x, y))].mergedCount = 1
    THEN [hoveredBlob |-> blobs[FirstOf(BlobHits(blobs, x, y))].eventId,
          hoveredOrphanSketch |-> None]
    ELSE NoHover

(***************************************************************************)
(* Zoom-to-Separate Calculator.                                            *)
(***************************************************************************)
SeqMax(s) == CHOOSE v \in Range(s) : \A w \in Range(s) : w <= v
SeqMin(s) == CHOOSE v \in Range(s) : \A w \in Range(s) : v <= w

Latitudes(ids) == [k \in 1..Len(ids) |-> Val(events[ids[k]].latitude)]
Longitudes(ids) == [k \in 1..Len(ids) |-> Val(events[ids[k]].longitude)]

\* max(latRange, lngRange), in milli-degrees.
maxRange(ids) ==
    Max(SeqMax(Latitudes(ids)) - SeqMin(Latitudes(ids)),
        SeqMax(Longitudes(ids)) - SeqMin(Longitudes(ids)))

\* requiredPixelSeparation in the unit of ScaledPixelRange: pixels * 10^6
\* (milli-degrees times the 0.001 of currentScale).
SeparationThreshold == requiredPixelSeparation * 1000000

\* currentPixelRange = maxRange * 2^zoom * 0.001 * min(width, height), in
\* the unit above, saturated at the threshold.
ScaledPixelRange(ids, z) ==
    LET a == maxRange(ids) * Min(CanvasSize[1], CanvasSize[2])
        b == Pow2(z)
    IN IF a <= SeparationThreshold \div b THEN a * b ELSE SeparationThreshold

\* ceil(log2(requiredPixelSeparation / currentPixelRange)) for 0 < p < threshold.
RECURSIVE CeilLog2Ratio(_, _)
CeilLog2Ratio(p, k) == IF p >= SeparationThreshold THEN k ELSE CeilLog2Ratio(2 * p, k + 1)

\* The default branch zooming in by one level instead of two.
calculateZoomPlusOne(ids, canvas) ==
    IF Len(ids) < 2 THEN zoom
    ELSE IF ~canvas THEN zoom + 3
    ELSE IF ScaledPixelRange(ids, zoom) < SeparationThreshold
         THEN IF ScaledPixelRange(ids, zoom) = 0
              THEN MaxSeparationZoom
              ELSE Min(MaxSeparationZoom,
                       zoom + Max(2, CeilLog2Ratio(ScaledPixelRange(ids, zoom), 0)))
         ELSE zoom + 1

calculateZoomForSeparation(ids, canvas) ==
    IF Len(ids) < 2 THEN zoom
    ELSE IF ~canvas THEN zoom + 3
    ELSE IF ScaledPixelRange(ids, zoom) < SeparationThreshold
         THEN IF ScaledPixelRange(ids, zoom) = 0
              THEN MaxSeparationZoom      \* zoomIncrease is Infinity
              ELSE Min(MaxSeparationZoom,
                       zoom + Max(2, CeilLog2Ratio(ScaledPixelRange(ids, zoom), 0)))
         ELSE zoom + 2

\* Arithmetic mean of the merged events' coordinates, in 1/CenterScale milli-degree.
CenterScale == 60
Centroid(ids) ==
    <<(CenterScale * SumSeq(Latitudes(ids))) \div Len(ids),
      (CenterScale * SumSeq(Longitudes(ids))) \div Len(ids)>>

\* [6.2476, -75.5658]
initialCenter == <<374856, -4533948>>


(***************************************************************************)
(* State machine of the component.                                         *)
(***************************************************************************)
\* pair remembers the last click when it resolved to a single blob: the blob's
\* event, whether it was selected before that click, whether a frame was drawn
\* since, and (first, between) the same two facts about the click before it when
\* that one resolved to the same blob with nothing but frames in between.
NoPair == [id |-> None, before |-> "na", framed |-> FALSE, first |-> "na", between |-> FALSE]
\* What is remembered of a hit: its kind, the blob's event and size, and the
\* sketch (cloud thumbnail or orphan) it names.
HitSummary(hit) ==
    [kind |-> hit.kind,
     eventId |-> IF hit.kind \in {"blob", "cloud"} THEN hit.blob.eventId ELSE None,
     mergedCount |-> IF hit.kind \in {"blob", "cloud"} THEN hit.blob.mergedCount ELSE 0,
     sketchId |-> IF hit.kind = "cloud" THEN hit.sketchId
                  ELSE IF hit.kind = "orphan" THEN hit.orphanSketch ELSE None]
\* last when the handler that ran last was not a click.
NoClick == [op |-> "none", pt |-> <<>>, hit |-> HitSummary(NoHit)]

\* What map.getCenter() reports in each viewport, in the unit of center.
LayoutCenter(l) ==
    IF l = LayoutClose THEN initialCenter
    ELSE <<CenterScale * 6245, CenterScale * (-75565)>>

\* Zoom levels the map reports on zoomend.
MapZoomLevels == {initialZoom, 16}

\* The view after mounting: the render loop effect has called render once,
\* which requested the first frame; no thumbnail has been asked for.
InitView ==
    /\ mounted = TRUE
    /\ animationFrame = "pending"
    /\ pendingFrames = 1
    /\ imageCache = {}
    /\ imageLoads = [u \in Urls |-> 0]
    /\ effectPending = FALSE

Init ==
    /\ sketches \in SketchLists
    /\ events = NoEvents
    /\ mapReady = FALSE
    /\ layout = LayoutClose
    /\ zoom = initialZoom
    /\ center = initialCenter
    /\ selectedEventId = None
    /\ selectedSketch = None
    /\ selectionTime = [e \in {} |-> 0]
    /\ animationTime = 0
    /\ sketchCloudPositions = <<>>
    /\ last = NoClick
    /\ pair = NoPair
    /\ InitView

\* handleMapReady: the Leaflet instance becomes available.
handleMapReady ==
    /\ ~mapReady
    /\ mapReady' = TRUE
    /\ last' = NoClick
    /\ pair' = NoPair
    /\ UNCHANGED <<sketches, events, layout, zoom, center, selectedEventId,
                   selectedSketch, selectionTime, animationTime, sketchCloudPositions>>

\* fetchEvents: the events query (issued once per sketches list) answers and
\* setEvents stores the lookup.
fetchEvents ==
    /\ events = NoEvents
    /\ \E table \in EventTables : events' = table
    /\ last' = NoClick
    /\ pair' = NoPair
    /\ UNCHANGED <<sketches, mapReady, layout, zoom, center, selectedEventId,
                   selectedSketch, selectionTime, animationTime, sketchCloudPositions>>

\* handleMapMove (moveend): the Leaflet map has moved to another view (by the
\* user, or by setView), so the projection changed, and setCenter(map.getCenter()).
handleMapMove ==
    /\ mapReady
    /\ \E l \in Layouts :
          /\ l /= layout \/ center /= LayoutCenter(l)
          /\ layout' = l
          /\ center' = LayoutCenter(l)
    /\ last' = NoClick
    /\ pair' = NoPair
    /\ UNCHANGED <<sketches, events, mapReady, zoom, selectedEventId,
                   selectedSketch, selectionTime, animationTime, sketchCloudPositions>>

\* handleMapZoom (zoomend): setZoom(map.getZoom()).
handleMapZoom ==
    /\ mapReady
    /\ \E z \in MapZoomLevels :
          /\ z /= zoom
          /\ zoom' = z
    /\ last' = NoClick
    /\ pair' = NoPair
    /\ UNCHANGED <<sketches, events, mapReady, layout, center, selectedEventId,
                   selectedSketch, selectionTime, animationTime, sketchCloudPositions>>

\* The merged-blob branch falling into the selection toggle as well.
ClickMergedSelects(blob) ==
    /\ center' = Centroid(blob.mergedEventIds)
    /\ zoom' = calculateZoomForSeparation(blob.mergedEventIds, TRUE)
    /\ zoom' <= ZoomCap
    /\ selectedEventId' = IF selectedEventId = blob.eventId THEN None ELSE blob.eventId
    /\ selectedSketch' = None
    /\ UNCHANGED selectionTime

\* The state a click on a merged blob requests: centroid, separation zoom, Idle.
ClickMerged(blob) ==
    /\ center' = Centroid(blob.mergedEventIds)
    /\ zoom' = calculateZoomForSeparation(blob.mergedEventIds, TRUE)
    /\ zoom' <= ZoomCap
    /\ selectedEventId' = None
    /\ selectedSketch' = None
    /\ UNCHANGED selectionTime

\* The toggle without selectionTimeRef.current.delete.
ClickSingleKeepsTimer(blob) ==
    /\ IF selectedEventId = blob.eventId
       THEN /\ selectedEventId' = None
            /\ selectedSketch' = None
       ELSE /\ selectedEventId' = blob.eventId
            /\ selectedSketch' = None
    /\ UNCHANGED <<center, zoom, selectionTime>>

\* Single blob - toggle selection.
ClickSingle(blob) ==
    /\ IF selectedEventId = blob.eventId
       THEN /\ selectedEventId' = None
            /\ selectedSketch' = None
            /\ selectionTime' = [e \in DOMAIN selectionTime \ {blob.eventId} |-> selectionTime[e]]
       ELSE /\ selectedEventId' = blob.eventId
            /\ selectedSketch' = None
            /\ UNCHANGED selectionTime
    /\ UNCHANGED <<center, zoom>>

\* The part of handleClick after a blob was hit and no cloud sketch was selected.
ClickBlob(blob) ==
    IF blob.mergedCount > 1 THEN ClickMerged(blob) ELSE ClickSingle(blob)

ClickEmpty ==
    /\ selectedEventId' = None
    /\ selectedSketch' = None
    /\ UNCHANGED <<center, zoom, selectionTime>>

ClickSketch(id) ==
    /\ selectedSketch' = id
    /\ UNCHANGED <<center, zoom, selectionTime, selectedEventId>>

PairAfter(hit) ==
    IF hit.kind = "blob" /\ hit.blob.mergedCount = 1
    THEN [id |-> hit.blob.eventId,
          before |-> IF selectedEventId = hit.blob.eventId THEN "sel" ELSE "unsel",
          framed |-> FALSE,
          first |-> IF pair.id = hit.blob.eventId THEN pair.before ELSE "na",
          between |-> pair.id = hit.blob.eventId /\ pair.framed]
    ELSE NoPair

handleClickAt(pt, hit) ==
    /\ CASE hit.kind = "none" -> ClickEmpty
         [] hit.kind = "orphan" -> ClickSketch(hit.orphanSketch)
         [] hit.kind = "cloud" ->
               IF hit.sketchId \in Range(hit.blob.sketches)
               THEN ClickSketch(hit.sketchId)
               ELSE ClickBlob(hit.blob)
         [] hit.kind = "blob" -> ClickBlob(hit.blob)
    /\ last' = [op |-> "handleClick", pt |-> pt, hit |-> HitSummary(hit)]
    /\ pair' = PairAfter(hit)
    /\ UNCHANGED <<sketches, events, mapReady, layout, animationTime, sketchCloudPositions>>

\* handleClick: a click on the map container (the listener exists once the map is ready).
handleClick ==
    /\ mapReady
    /\ LET blobs == prepareBlobs
           orphanSketches == prepareOrphanSketches
       IN \E pt \in ClickPoints :
             LET hit == HitTest(blobs, orphanSketches, pt[1], pt[2])
             IN handleClickAt(pt, hit)

\* The close button of the sketch viewer: setSelectedSketch(null).
closeSketchViewer ==
    /\ selectedSketch /= None
    /\ selectedSketch' = None
    /\ last' = NoClick
    /\ pair' = NoPair
    /\ UNCHANGED <<sketches, events, mapReady, layout, zoom, center, selectedEventId,
                   selectionTime, animationTime, sketchCloudPositions>>

\* render: one animation frame, dt ticks after the previous one.
renderFrame(blobs, dt) ==
    /\ animationTime + dt <= MaxTime
    /\ animationTime' = animationTime + dt
    /\ IF SelectedBlobs(blobs) /= {}
       THEN LET blob == blobs[FirstOf(SelectedBlobs(blobs))]
            IN /\ sketchCloudPositions' = drawSketchCloud(blob, animationTime + dt)
               /\ selectionTime' = SelectionTimeRecorded(blob.eventId, animationTime + dt)
       ELSE UNCHANGED <<sketchCloudPositions, selectionTime>>
    /\ last' = NoClick
    /\ pair' = IF pair.id = None THEN pair ELSE [pair EXCEPT !.framed = TRUE]
    /\ UNCHANGED <<sketches, events, mapReady, layout, zoom, center, selectedEventId,
                   selectedSketch>>

render ==
    /\ mapReady
    /\ LET blobs == prepareBlobs
       IN \E dt \in 0..MaxFrameDelta : renderFrame(blobs, dt)

Next ==
    \/ handleMapReady /\ UNCHANGED viewVars
    \/ fetchEvents /\ UNCHANGED viewVars
    \/ handleMapMove /\ UNCHANGED viewVars
    \/ handleMapZoom /\ UNCHANGED viewVars
    \/ handleClick /\ UNCHANGED viewVars
    \/ closeSketchViewer /\ UNCHANGED viewVars
    \/ render /\ UNCHANGED viewVars

Spec == Init /\ [][Next]_vars

(***************************************************************************)
(* Properties of the selection state machine (specification Spec).         *)
(***************************************************************************)
\* The pointer is within 20px of a thumbnail of the selected blob's cloud.
OnCloud(blobs, x, y) == SelectedBlobs(blobs) /= {} /\ CloudHits(x, y) /= {}

\* C1: no animation start-time entry exists for an event other than the
\* currently selected one (every way of ending a selection drops the entry).
C1_NoStaleStartTime ==
    \A e \in DOMAIN selectionTime : e = selectedEventId

\* C2 (as stated): after two successive clicks on the same single blob, with
\* only frames in between, nothing is selected and the blob's event has no
\* start-time entry.
C2_DoubleClickIdle ==
    pair.first /= "na" =>
        /\ selectedEventId = None
        /\ selectedSketch = None
        /\ pair.id \notin DOMAIN selectionTime

\* C2 (amended): the same, when the blob was not the selected one before the
\* first of the two clicks.
C2_DoubleClickFromUnselected ==
    pair.first = "unsel" =>
        /\ selectedEventId = None
        /\ selectedSketch = None
        /\ pair.id \notin DOMAIN selectionTime

\* Two clicks on one unselected single blob with a frame drawn in between.
C2_Witness ==
    /\ last.op = "handleClick"
    /\ pair.first = "unsel"
    /\ pair.between
    /\ selectedEventId = None
    /\ pair.id \notin DOMAIN selectionTime

\* C3: with a blob selected, a pointer within 20px of one of its thumbnails
\* and inside some blob's circle, and no orphan within 15px, resolves to the
\* (blob, thumbnail) result and not to the plain blob.
C3_CloudBeforeBlob ==
    mapReady =>
        LET blobs == prepareBlobs
            orphanSketches == prepareOrphanSketches
        IN \A pt \in ClickPoints :
              ( /\ OnCloud(blobs, pt[1], pt[2])
                /\ BlobHits(blobs, pt[1], pt[2]) /= {}
                /\ OrphanHits(orphanSketches, pt[1], pt[2]) = {} )
              => HitTest(blobs, orphanSketches, pt[1], pt[2]).kind = "cloud"

\* C4: a click within 15px of an orphan that is also inside a blob's circle
\* or within 20px of a cloud thumbnail resolves to the orphan, sets
\* selectedSketch to it and leaves the selection, the timers and the viewport
\* as they were.
C4_OrphanFirst ==
    [][ last'.op = "handleClick" =>
          LET blobs == prepareBlobs
              orphanSketches == prepareOrphanSketches
              x == last'.pt[1]
              y == last'.pt[2]
          IN ( /\ OrphanHits(orphanSketches, x, y) /= {}
               /\ BlobHits(blobs, x, y) /= {} \/ OnCloud(blobs, x, y) )
             => /\ last'.hit.kind = "orphan"
                /\ last'.hit.sketchId = orphanSketches[FirstOf(OrphanHits(orphanSketches, x, y))].sketch
                /\ selectedSketch' = last'.hit.sketchId
                /\ UNCHANGED <<selectedEventId, selectionTime, center, zoom>> ]_vars

\* An orphan was clicked at a point inside the circle of the selected blob,
\* which stays selected.
C4_Witness ==
    /\ last.op = "handleClick"
    /\ last.hit.kind = "orphan"
    /\ selectedSketch = last.hit.sketchId
    /\ selectedEventId /= None
    /\ \E i \in BlobHits(prepareBlobs, last.pt[1], last.pt[2]) :
          prepareBlobs[i].eventId = selectedEventId

\* C6: a click resolved to a merged blob requests the mean of the merged
\* events' coordinates as centre and the separation zoom, and leaves nothing
\* selected.
C6_MergedClickZooms ==
    [][ (last'.op = "handleClick" /\ last'.hit.kind = "blob" /\ last'.hit.mergedCount > 1) =>
          LET blobs == prepareBlobs
              blob == blobs[FirstOf(BlobHits(blobs, last'.pt[1], last'.pt[2]))]
              ids == blob.mergedEventIds
          IN /\ Len(ids) = blob.mergedCount
             /\ Len(ids) * center'[1] = CenterScale * SumSeq(Latitudes(ids))
             /\ Len(ids) * center'[2] = CenterScale * SumSeq(Longitudes(ids))
             /\ zoom' = calculateZoomForSeparation(ids, TRUE)
             /\ selectedEventId' = None
             /\ selectedSketch' = None ]_vars

\* A merged blob of two events was clicked after a blob had been selected and
\* drawn: the view zoomed in on their mean and nothing is selected.
C6_Witness ==
    /\ last.op = "handleClick"
    /\ last.hit.kind = "blob"
    /\ last.hit.mergedCount = 2
    /\ DOMAIN selectionTime /= {}
    /\ selectedEventId = None
    /\ zoom > initialZoom
    /\ center = Centroid(<<"E1", "E2">>)

(***************************************************************************)
(* The older component, src/src/components/map/InteractiveMap.tsx: blobs   *)
(* and their click handling without orphans and without animation timers.  *)
(***************************************************************************)
\* Offset of thumbnail index of n, in whole pixels: angle = index * 2 pi / n,
\* distance = 100 + sin(index * 0.5) * 10.
LegacyCloudOffset(n, index) ==
    CASE n = 1 /\ index = 0 -> <<100, 0>>
      [] n = 2 /\ index = 0 -> <<100, 0>>
      [] n = 2 /\ index = 1 -> <<-105, 0>>
      [] n = 3 /\ index = 0 -> <<100, 0>>
      [] n = 3 /\ index = 1 -> <<-52, 91>>
      [] n = 3 /\ index = 2 -> <<-54, -94>>
      [] n = 4 /\ index = 0 -> <<100, 0>>
      [] n = 4 /\ index = 1 -> <<0, 105>>
      [] n = 4 /\ index = 2 -> <<-108, 0>>
      [] n = 4 /\ index = 3 -> <<0, -110>>

LegacyDrawSketchCloud(blob) ==
    LET n == Len(blob.sketches)
    IN AsSeq([i \in 1..n |->
          [id |-> blob.sketches[i],
           x |-> blob.x + SubPx * LegacyCloudOffset(n, i - 1)[1],
           y |-> blob.y + SubPx * LegacyCloudOffset(n, i - 1)[2]]])

\* The thumbnails within 20px whose sketch belongs to the selected blob.
LegacyCloudHits(blob, x, y) ==
    {i \in CloudHits(x, y) : sketchCloudPositions[i].id \in Range(blob.sketches)}

\* The two loops of the older handleClick: blobs first, then the cloud.
LegacyHitTest(blobs, x, y) ==
    IF BlobHits(blobs, x, y) /= {}
    THEN [kind |-> "blob", blob |-> blobs[FirstOf(BlobHits(blobs, x, y))]]
    ELSE IF /\ selectedEventId /= None
            /\ SelectedBlobs(blobs) /= {}
            /\ LegacyCloudHits(blobs[FirstOf(SelectedBlobs(blobs))], x, y) /= {}
    THEN LET blob == blobs[FirstOf(SelectedBlobs(blobs))]
         IN [kind |-> "cloud", blob |-> blob,
             sketchId |-> sketchCloudPositions[FirstOf(LegacyCloudHits(blob, x, y))].id]
    ELSE NoHit

\* Single blob - toggle selection (no timers in this component).
LegacyClickSingle(blob) ==
    /\ IF selectedEventId = blob.eventId
       THEN selectedEventId' = None /\ selectedSketch' = None
       ELSE selectedEventId' = blob.eventId /\ selectedSketch' = None
    /\ UNCHANGED <<center, zoom, selectionTime>>

LegacyHandleClickAt(pt, hit) ==
    /\ CASE hit.kind = "blob" ->
               IF hit.blob.mergedCount > 1 THEN ClickMerged(hit.blob)
               ELSE LegacyClickSingle(hit.blob)
         [] hit.kind = "cloud" -> ClickSketch(hit.sketchId)
         [] hit.kind = "none" ->
               \* "Click on empty space - close selection": the handler ends here
               UNCHANGED <<selectedEventId, selectedSketch, center, zoom, selectionTime>>
    /\ last' = [op |-> "handleClick", pt |-> pt, hit |-> HitSummary(hit)]
    /\ pair' = PairAfter(hit)
    /\ UNCHANGED <<sketches, events, mapReady, layout, animationTime, sketchCloudPositions>>

\* handleClick of the older component: onClick of the canvas.
LegacyHandleClick ==
    LET blobs == prepareBlobs
    IN \E pt \in ClickPoints :
          LegacyHandleClickAt(pt, LegacyHitTest(blobs, pt[1], pt[2]))

\* render of the older component: the cloud of the selected blob is laid out
\* at fixed offsets.
LegacyRender ==
    /\ mapReady
    /\ LET blobs == prepareBlobs
       IN IF SelectedBlobs(blobs) /= {}
          THEN sketchCloudPositions' =
                  LegacyDrawSketchCloud(blobs[FirstOf(SelectedBlobs(blobs))])
          ELSE UNCHANGED sketchCloudPositions
    /\ last' = NoClick
    /\ pair' = IF pair.id = None THEN pair ELSE [pair EXCEPT !.framed = TRUE]
    /\ UNCHANGED <<sketches, events, mapReady, layout, zoom, center, selectedEventId,
                   selectedSketch, selectionTime, animationTime>>

NextLegacy ==
    \/ handleMapReady /\ UNCHANGED viewVars
    \/ fetchEvents /\ UNCHANGED viewVars
    \/ handleMapMove /\ UNCHANGED viewVars
    \/ handleMapZoom /\ UNCHANGED viewVars
    \/ LegacyHandleClick /\ UNCHANGED viewVars
    \/ closeSketchViewer /\ UNCHANGED viewVars
    \/ LegacyRender /\ UNCHANGED viewVars

SpecLegacy == Init /\ [][NextLegacy]_vars

\* C5: a click that hits no orphan, no blob and no thumbnail leaves nothing
\* selected and no sketch open, and requests no viewport change.
C5_EmptyClickClears ==
    [][ (last'.op = "handleClick" /\ last'.hit.kind = "none") =>
           /\ selectedEventId' = None
           /\ selectedSketch' = None
           /\ center' = center
           /\ zoom' = zoom ]_vars

(***************************************************************************)
(* The Zoom-to-Separate Calculator on its own (specification SpecZoom).    *)
(***************************************************************************)
MergedEventLists == {<<"E1">>, <<"E1", "E2">>, <<"E1", "E3">>, <<"E3", "E2", "E1">>}

InitZoom ==
    /\ sketches \in SketchLists
    /\ events \in ZoomEventTables
    /\ mapReady = TRUE
    /\ layout = LayoutClose
    /\ zoom \in 0..MaxZoomInput
    /\ center = initialCenter
    /\ selectedEventId = None
    /\ selectedSketch = None
    /\ selectionTime = [e \in {} |-> 0]
    /\ animationTime = 0
    /\ sketchCloudPositions = <<>>
    /\ last = NoClick
    /\ pair = NoPair
    /\ InitView

\* One call of calculateZoomForSeparation, with the canvas mounted or not.
calculateZoomCall ==
    /\ \E ids \in MergedEventLists, canvas \in BOOLEAN :
          last' = [op |-> "calculateZoomForSeparation", ids |-> ids, canvas |-> canvas,
                   result |-> calculateZoomForSeparation(ids, canvas)]
    /\ UNCHANGED <<sketches, events, mapReady, layout, zoom, center, selectedEventId,
                   selectedSketch, selectionTime, animationTime, sketchCloudPositions, pair>>

NextZoom == calculateZoomCall /\ UNCHANGED viewVars

SpecZoom == InitZoom /\ [][NextZoom]_vars

\* C7 (as stated): for at least two merged events the calculator returns at
\* least the current zoom + 2.
C7_ZoomFloor ==
    (last.op = "calculateZoomForSeparation" /\ Len(last.ids) >= 2) =>
        last.result >= zoom + 2

\* C7 (amended): it returns at least the current zoom + 2, or the maximum
\* zoom of 20 when that is lower.
C7_ZoomFloorUpToMax ==
    (last.op = "calculateZoomForSeparation" /\ Len(last.ids) >= 2) =>
        last.result >= Min(20, zoom + 2)

\* Two events less than 200px apart at zoom 19: the calculator answers 20.
C7_Witness ==
    /\ last.op = "calculateZoomForSeparation"
    /\ Len(last.ids) >= 2
    /\ last.canvas
    /\ zoom = 19
    /\ maxRange(last.ids) = 0
    /\ last.result = 20

\* C8: for at least two merged events the calculator never returns more than
\* the maximum zoom of 20.
C8_ZoomCap ==
    (last.op = "calculateZoomForSeparation" /\ Len(last.ids) >= 2) =>
        last.result <= 20

(***************************************************************************)
(* The Cluster Builder on its own (specification SpecCluster): every input *)
(* order of the events, projections on a grid, three merge distances.      *)
(***************************************************************************)
ClusterGrid == {0, 60, 120, 180}
ClusterZooms == {11, 12, 13}

ClusterLayout(a, b, c) == [p \in Places |->
    CASE p = PlaceA -> <<a, 100>>
      [] p = PlaceB -> <<b, 100>>
      [] p = PlaceC -> <<c, 100>>
      [] p = PlaceO -> <<300, 300>>]
ClusterLayouts == {ClusterLayout(a, b, c) : a \in ClusterGrid, b \in ClusterGrid, c \in ClusterGrid}

InitCluster ==
    /\ sketches \in AllSketchLists
    /\ events = EventsDistinct
    /\ mapReady = TRUE
    /\ layout \in ClusterLayouts
    /\ zoom \in ClusterZooms
    /\ center = initialCenter
    /\ selectedEventId = None
    /\ selectedSketch = None
    /\ selectionTime = [e \in {} |-> 0]
    /\ animationTime = 0
    /\ sketchCloudPositions = <<>>
    /\ last = NoClick
    /\ pair = NoPair
    /\ InitView

\* zoomend in this specification: setZoom(map.getZoom()), one of ClusterZooms.
handleMapZoomCluster ==
    /\ \E z \in ClusterZooms :
          /\ z /= zoom
          /\ zoom' = z
    /\ UNCHANGED <<sketches, events, mapReady, layout, center, selectedEventId,
                   selectedSketch, selectionTime, animationTime, sketchCloudPositions,
                   last, pair>>

\* One call of prepareBlobs; last keeps its result and the result of the call
\* before it.
prepareBlobsCall ==
    /\ last' = [op |-> "prepareBlobs", zoom |-> zoom, blobs |-> prepareBlobs,
                before |-> IF last.op = "prepareBlobs"
                           THEN <<[zoom |-> last.zoom, blobs |-> last.blobs]>>
                           ELSE <<>>]
    /\ UNCHANGED <<sketches, events, mapReady, layout, zoom, center, selectedEventId,
                   selectedSketch, selectionTime, animationTime, sketchCloudPositions, pair>>

NextCluster ==
    \/ handleMapZoomCluster /\ UNCHANGED viewVars
    \/ prepareBlobsCall /\ UNCHANGED viewVars

SpecCluster == InitCluster /\ [][NextCluster]_vars

\* The events of a blob.
Members(blob) == IF blob.mergedCount > 1 THEN Range(blob.mergedEventIds) ELSE {blob.eventId}
SameBlob(blobs, a, b) == \E i \in DOMAIN blobs : {a, b} \subseteq Members(blobs[i])

\* Projected centres less than MERGE_DISTANCE(z) apart.
Near(u, v, z) ==
    (u.px - v.px) * (u.px - v.px) + (u.py - v.py) * (u.py - v.py)
        < MERGE_DISTANCE(z) * MERGE_DISTANCE(z)

\* C9 (as stated): two events whose projected centres are within
\* MERGE_DISTANCE(zoom) of each other are in the same blob of the list
\* prepareBlobs returns, whatever the input order and however many events
\* there are.
C9_MergeSymmetry ==
    last.op = "prepareBlobs" =>
        LET U == UnmergedBlobs
        IN \A i, j \in DOMAIN U :
              (i /= j /\ Near(U[i], U[j], last.zoom)) =>
                  SameBlob(last.blobs, U[i].eventId, U[j].eventId)

\* C9 (amended): the same, when no third event is within MERGE_DISTANCE(zoom)
\* of either of the two.
C9_MergeSymmetryIsolated ==
    last.op = "prepareBlobs" =>
        LET U == UnmergedBlobs
        IN \A i, j \in DOMAIN U :
              ( /\ i /= j
                /\ Near(U[i], U[j], last.zoom)
                /\ \A k \in DOMAIN U \ {i, j} :
                      ~Near(U[k], U[i], last.zoom) /\ ~Near(U[k], U[j], last.zoom) )
              => SameBlob(last.blobs, U[i].eventId, U[j].eventId)

\* Three events, listed E3 first, then E2, then E1; E1 and E2 are within the
\* merge distance, E3 is near neither, and prepareBlobs put E1 and E2 in one blob.
C9_Witness ==
    /\ last.op = "prepareBlobs"
    /\ sketches = ListE3E2E1
    /\ LET U == UnmergedBlobs
       IN /\ Len(U) = 3
          /\ U[1].eventId = "E3" /\ U[2].eventId = "E2" /\ U[3].eventId = "E1"
          /\ U[2].px /= U[3].px
          /\ Near(U[2], U[3], last.zoom)
          /\ ~Near(U[1], U[2], last.zoom) /\ ~Near(U[1], U[3], last.zoom)
    /\ SameBlob(last.blobs, "E1", "E2")
    /\ Len(last.blobs) = 2

\* mergedCount of the blob of the list that holds the event.
CountIn(blobs, eventId) ==
    blobs[CHOOSE k \in DOMAIN blobs : eventId \in Members(blobs[k])].mergedCount

\* C10 (as stated): with positions and input order fixed, no event's blob has
\* a greater mergedCount at a higher zoom than at a lower one.
C10_MergeMonotone ==
    (last.op = "prepareBlobs" /\ last.before /= <<>> /\ last.zoom >= last.before[1].zoom) =>
        \A i \in DOMAIN UnmergedBlobs :
            CountIn(last.blobs, UnmergedBlobs[i].eventId)
                <= CountIn(last.before[1].blobs, UnmergedBlobs[i].eventId)

\* C10 (amended): the same for the blob of the first event in input order.
C10_FirstAnchorMonotone ==
    (last.op = "prepareBlobs" /\ last.before /= <<>> /\ last.zoom >= last.before[1].zoom) =>
        CountIn(last.blobs, UnmergedBlobs[1].eventId)
            <= CountIn(last.before[1].blobs, UnmergedBlobs[1].eventId)

\* prepareBlobs ran at zoom 11 and then at zoom 12: the first event's blob
\* held three events and now holds two.
C10_Witness ==
    /\ last.op = "prepareBlobs"
    /\ last.before /= <<>>
    /\ last.before[1].zoom = 11
    /\ last.zoom = 12
    /\ CountIn(last.before[1].blobs, UnmergedBlobs[1].eventId) = 3
    /\ CountIn(last.blobs, UnmergedBlobs[1].eventId) = 2

\* The sketches of the input list that refer to the event, in input order.
SketchesOf(e) == SelectSeq(sketches, LAMBDA id : Sketch(id).event_id = e)

\* Position of the event in input order (first appearance in the sketch list).
InputPosition(e) == CHOOSE k \in DOMAIN sketches :
    /\ Sketch(sketches[k]).event_id = e
    /\ \A j \in 1..(k - 1) : Sketch(sketches[j]).event_id /= e

\* C22: in the list prepareBlobs returns, a merged blob carries the id of its
\* earliest member in input order, mergedCount = length of its member list
\* >= 2, the sketch lists of its members concatenated, and the colour of its
\* representative id; a blob of one event has mergedCount 1 and no member list.
C22_BlobIdentity ==
    last.op = "prepareBlobs" =>
        \A i \in DOMAIN last.blobs :
            LET blob == last.blobs[i]
                ids == blob.mergedEventIds
            IN IF blob.mergedCount > 1
               THEN /\ blob.mergedCount = Len(ids)
                    /\ Len(ids) >= 2
                    /\ blob.eventId \in Range(ids)
                    /\ \A e \in Range(ids) : InputPosition(blob.eventId) <= InputPosition(e)
                    /\ blob.sketches = Concat([k \in 1..Len(ids) |-> SketchesOf(ids[k])])
                    /\ blob.color = generatePastelColor(CharCodes(blob.eventId))
               ELSE /\ blob.mergedCount = 1
                    /\ ids = <<>>
                    /\ blob.sketches = SketchesOf(blob.eventId)
                    /\ blob.color = generatePastelColor(CharCodes(blob.eventId))

\* The list starts with E2's sketch; prepareBlobs answered a blob of E2 and E1
\* named E2, holding S3, S1, S2, next to the blob of E3 alone.
C22_Witness ==
    /\ last.op = "prepareBlobs"
    /\ sketches = ListE2E3E1
    /\ Len(last.blobs) = 2
    /\ last.blobs[1].eventId = "E2"
    /\ last.blobs[1].mergedEventIds = <<"E2", "E1">>
    /\ last.blobs[1].sketches = <<"S3", "S1", "S2">>
    /\ last.blobs[2].eventId = "E3"
    /\ last.blobs[2].mergedCount = 1

\* The blob of an event in the list U of unmerged blobs.
BlobOf(U, e) == U[CHOOSE k \in DOMAIN U : U[k].eventId = e]
UnmergedOf(e) == BlobOf(UnmergedBlobs, e)

\* C23: in the list prepareBlobs returns, every member of a blob other than
\* its anchor has its projected centre strictly less than MERGE_DISTANCE from
\* the anchor's; an event that is within MERGE_DISTANCE of a non-anchor
\* member but not of the anchor is not a member of that blob.
C23_GreedyMerge ==
    last.op = "prepareBlobs" =>
        LET U == UnmergedBlobs
        IN \A i \in DOMAIN last.blobs :
            LET blob == last.blobs[i]
                anchor == BlobOf(U, blob.eventId)
            IN /\ \A e \in Members(blob) \ {blob.eventId} :
                      Near(BlobOf(U, e), anchor, last.zoom)
               /\ \A k \in DOMAIN U :
                      ( /\ U[k].eventId /= blob.eventId
                        /\ ~Near(U[k], anchor, last.zoom)
                        /\ \E e \in Members(blob) \ {blob.eventId} :
                               Near(U[k], BlobOf(U, e), last.zoom) )
                      => U[k].eventId \notin Members(blob)

\* A chain: E2 is within the merge distance of the anchor E1, E3 is within it
\* of E2 only; prepareBlobs answered the blob of E1 and E2 and left E3 alone.
C23_Witness ==
    /\ last.op = "prepareBlobs"
    /\ sketches = ListE1E2E3
    /\ Near(UnmergedOf("E2"), UnmergedOf("E1"), last.zoom)
    /\ Near(UnmergedOf("E3"), UnmergedOf("E2"), last.zoom)
    /\ ~Near(UnmergedOf("E3"), UnmergedOf("E1"), last.zoom)
    /\ Len(last.blobs) = 2
    /\ last.blobs[1].mergedEventIds = <<"E1", "E2">>
    /\ last.blobs[2].eventId = "E3"
    /\ last.blobs[2].mergedCount = 1

\* C27: in the list prepareBlobs returns, the anchors of any two distinct
\* blobs have projected centres at least MERGE_DISTANCE apart, whatever the
\* input order.
C27_AnchorSeparation ==
    last.op = "prepareBlobs" =>
        LET U == UnmergedBlobs
        IN \A i, j \in DOMAIN last.blobs :
              i /= j => ~Near(BlobOf(U, last.blobs[i].eventId),
                              BlobOf(U, last.blobs[j].eventId), last.zoom)

\* E3 comes first in the input and is the anchor of a blob with E2; E1, 120
\* pixels from E3 and 60 from E2, is the anchor of the other blob.
C27_Witness ==
    /\ last.op = "prepareBlobs"
    /\ sketches = ListE3E1E2
    /\ last.zoom = 12
    /\ Len(last.blobs) = 2
    /\ last.blobs[1].mergedEventIds = <<"E3", "E2">>
    /\ last.blobs[2].eventId = "E1"
    /\ Near(UnmergedOf("E1"), UnmergedOf("E2"), last.zoom)
    /\ ~Near(UnmergedOf("E1"), UnmergedOf("E3"), last.zoom)

(***************************************************************************)
(* The Cluster Builder with incomplete data (specification SpecBuilder):   *)
(* a sketch whose event is not in the lookup, an event without             *)
(* coordinates, projections that fall on -1000, the map not yet ready.     *)
(***************************************************************************)
\* Sketch lists holding D1, whose event E4 is in no answer of the events query.
ListDangling == <<"S1", "D1", "O1", "S3", "S2", "S4">>
ListDanglingFirst == <<"D1", "O1", "S4", "S3", "S1", "S2">>
ListBulk == <<"A01", "A02", "A03", "A04", "A05", "A06", "A07",
             "A08", "A09", "A10", "A11", "A12", "A13", "A14", "S4", "O1",
             "B01", "B02", "B03", "B04", "B05", "B06",
             "B07", "B08", "B09", "B10", "B11", "B12">>
\* A list with Z1, a sketch drawn on the equator (latitude 0).
ListEquator == <<"S1", "Z1", "S3", "S4">>
BuilderSketchLists == {ListDangling, ListDanglingFirst, ListBulk, ListEquator}

\* Answers of the events query: E3 without coordinates; E2 not returned.
EventsE3Unlocated == [e \in EventIds |->
    CASE e = "E1" -> [latitude |-> Num(PlaceA[1]), longitude |-> Num(PlaceA[2])]
      [] e = "E2" -> [latitude |-> Num(PlaceB[1]), longitude |-> Num(PlaceB[2])]
      [] e = "E3" -> [latitude |-> Null, longitude |-> Null]]
EventsE2Missing == [e \in {"E1", "E3"} |->
    CASE e = "E1" -> [latitude |-> Num(PlaceA[1]), longitude |-> Num(PlaceA[2])]
      [] e = "E3" -> [latitude |-> Num(PlaceC[1]), longitude |-> Num(PlaceC[2])]]
\* E3 held on the equator (latitude 0).
EventsE3Equator == [e \in EventIds |->
    CASE e = "E1" -> [latitude |-> Num(PlaceA[1]), longitude |-> Num(PlaceA[2])]
      [] e = "E2" -> [latitude |-> Num(PlaceB[1]), longitude |-> Num(PlaceB[2])]
      [] e = "E3" -> [latitude |-> Num(PlaceZ[1]), longitude |-> Num(PlaceZ[2])]]
BuilderEventTables == {EventsDistinct, EventsE3Unlocated, EventsE2Missing, EventsE3Equator}

\* Projections: E1 at (100,100), E2 at pixel distance d to its right, E3 and
\* the orphan far away or on a point with a coordinate of -1000.
BuilderDistances == {40, 50, 80, 160}
BuilderEventPoints == {<<600, 400>>, <<-1000, 400>>, <<-1000, -1000>>}
BuilderOrphanPoints == {<<300, 300>>, <<-1000, 300>>, <<300, -1000>>, <<-1000, -1000>>}
BuilderZooms == {11, 12, 13, 15}

BuilderLayout(d, c, o) == [p \in Places \cup {PlaceZ} |->
    CASE p = PlaceA -> <<100, 100>>
      [] p = PlaceB -> <<100 + d, 100>>
      [] p = PlaceC -> c
      [] p = PlaceO -> o
      [] p = PlaceZ -> <<500, 500>>]
BuilderLayouts == {BuilderLayout(d, c, o) : d \in BuilderDistances,
                                            c \in BuilderEventPoints,
                                            o \in BuilderOrphanPoints}

InitBuilder ==
    /\ sketches \in BuilderSketchLists
    /\ events = NoEvents
    /\ mapReady = FALSE
    /\ layout \in BuilderLayouts
    /\ zoom \in BuilderZooms
    /\ center = initialCenter
    /\ selectedEventId = None
    /\ selectedSketch = None
    /\ selectionTime = [e \in {} |-> 0]
    /\ animationTime = 0
    /\ sketchCloudPositions = <<>>
    /\ last = NoClick
    /\ pair = NoPair
    /\ InitView

\* fetchEvents in this specification: any of the answers above.
fetchEventsBuilder ==
    /\ events = NoEvents
    /\ \E table \in BuilderEventTables : events' = table
    /\ last' = NoClick
    /\ pair' = NoPair
    /\ UNCHANGED <<sketches, mapReady, layout, zoom, center, selectedEventId,
                   selectedSketch, selectionTime, animationTime, sketchCloudPositions>>

\* One recomputation of the geometry: prepareBlobs and prepareOrphanSketches
\* on the current inputs; last keeps both results.
clusterBuilderCall ==
    /\ last' = [op |-> "clusterBuilder", zoom |-> zoom,
                blobs |-> prepareBlobs, orphans |-> prepareOrphanSketches]
    /\ UNCHANGED <<sketches, events, mapReady, layout, zoom, center, selectedEventId,
                   selectedSketch, selectionTime, animationTime, sketchCloudPositions, pair>>

NextBuilder ==
    \/ handleMapReady /\ UNCHANGED viewVars
    \/ fetchEventsBuilder /\ UNCHANGED viewVars
    \/ handleMapZoom /\ UNCHANGED viewVars
    \/ clusterBuilderCall /\ UNCHANGED viewVars

SpecBuilder == InitBuilder /\ [][NextBuilder]_vars

\* The sketch has coordinates and an event reference.
RefersToEvent(id) == HasEventAndLocation(id)

\* ... and that event is not in the lookup.
Dangling(id) == RefersToEvent(id) /\ Sketch(id).event_id \notin DOMAIN events

\* ... and that event is in the lookup without coordinates.
EventUnlocated(id) ==
    /\ RefersToEvent(id)
    /\ Sketch(id).event_id \in DOMAIN events
    /\ ~(Truthy(events[Sketch(id).event_id].latitude) /\ Truthy(events[Sketch(id).event_id].longitude))

\* The projection of the sketch's own coordinates.
SketchPoint(id) == latLngToPixel(Val(Sketch(id).latitude), Val(Sketch(id).longitude))

InBlobs(blobs, id) == \E i \in 1..Len(blobs) : id \in Range(blobs[i].sketches)
InOrphans(orphans, id) == \E i \in 1..Len(orphans) : orphans[i].sketch = id

\* C11: a sketch with coordinates whose event id is absent from the event
\* lookup is in no blob's sketch list and not in the orphan list of a Cluster
\* Builder run (which ends normally with such a sketch in its input).
C11_OrphanExclusion ==
    last.op = "clusterBuilder" =>
        \A id \in Range(sketches) :
            Dangling(id) => ~InBlobs(last.blobs, id) /\ ~InOrphans(last.orphans, id)

\* A run on a ready map with the lookup loaded that outputs blobs and an
\* orphan while D1's event is absent from the lookup.
C11_Witness ==
    /\ last.op = "clusterBuilder"
    /\ mapReady
    /\ events /= NoEvents
    /\ Dangling("D1")
    /\ Len(last.blobs) > 0
    /\ Len(last.orphans) > 0

EventPoint(e) == latLngToPixel(Val(events[e].latitude), Val(events[e].longitude))
PlacedEventIds ==
    {e \in DOMAIN events :
        /\ \E id \in Range(sketches) : RefersToEvent(id) /\ Sketch(id).event_id = e
        /\ Truthy(events[e].latitude) /\ Truthy(events[e].longitude)
        /\ EventPoint(e) /= NOT_READY}

\* Squared pixel distance between the only two placed events.
PairDistanceSquared ==
    LET a == CHOOSE e \in PlacedEventIds : TRUE
        b == CHOOSE e \in PlacedEventIds : e /= a
    IN (EventPoint(a)[1] - EventPoint(b)[1]) * (EventPoint(a)[1] - EventPoint(b)[1])
       + (EventPoint(a)[2] - EventPoint(b)[2]) * (EventPoint(a)[2] - EventPoint(b)[2])

\* 80 x clamp(2^(12 - zoom), 0.5, 2.0) for a whole zoom level.
ThresholdLaw(z) == IF z <= 11 THEN 160 ELSE IF z = 12 THEN 80 ELSE 40

\* C13: MERGE_DISTANCE(zoom) = 80 x clamp(2^(12 - zoom), 0.5, 2): 80 at zoom
\* 12, within [40, 160], non-increasing in zoom; and a Cluster Builder run
\* with exactly two placed events at pixel distance d outputs one blob with
\* mergedCount 2 when d is below that threshold, two blobs with mergedCount 1
\* otherwise.
C13_MergeThreshold ==
    /\ \A z \in 0..MaxZoomInput :
          /\ MERGE_DISTANCE(z) = ThresholdLaw(z)
          /\ MERGE_DISTANCE(z) >= 40 /\ MERGE_DISTANCE(z) <= 160
          /\ MERGE_DISTANCE(z + 1) <= MERGE_DISTANCE(z)
    /\ MERGE_DISTANCE(12) = 80
    /\ (last.op = "clusterBuilder" /\ Cardinality(PlacedEventIds) = 2) =>
          IF PairDistanceSquared < ThresholdLaw(last.zoom) * ThresholdLaw(last.zoom)
          THEN Len(last.blobs) = 1 /\ last.blobs[1].mergedCount = 2
          ELSE /\ Len(last.blobs) = 2
               /\ last.blobs[1].mergedCount = 1
               /\ last.blobs[2].mergedCount = 1

\* Two placed events 50 pixels apart: the run at zoom 15 outputs two blobs,
\* and the same inputs at zoom 12 give one blob of two events.
C13_Witness ==
    /\ last.op = "clusterBuilder"
    /\ Cardinality(PlacedEventIds) = 2
    /\ PairDistanceSquared = 50 * 50
    /\ last.zoom = 15
    /\ Len(last.blobs) = 2
    /\ Len(prepareBlobsAt(12)) = 1
    /\ prepareBlobsAt(12)[1].mergedCount = 2


\* Number of sketches of the input list placed under one of the events ids.
SketchCount(ids) ==
    Cardinality({i \in DOMAIN sketches :
                    RefersToEvent(sketches[i]) /\ Sketch(sketches[i]).event_id \in ids})

\* The events whose sketches a blob holds.
BlobEvents(blob) == {Sketch(blob.sketches[k]).event_id : k \in DOMAIN blob.sketches}

\* C14: in the output of a Cluster Builder run a blob of one event has
\* mergedCount 1 and radius 20 + min(3n, 40), n the number of sketches of
\* that event; a merged blob has radius 25 + min(2N, 50), N the number of
\* sketches of all its events; every radius is within [23, 75].
C14_RadiusLaw ==
    last.op = "clusterBuilder" =>
        \A i \in 1..Len(last.blobs) :
            LET blob == last.blobs[i]
            IN /\ Cardinality(BlobEvents(blob)) = 1 =>
                    /\ blob.mergedCount = 1
                    /\ blob.radius = 20 + Min(3 * SketchCount({blob.eventId}), 40)
               /\ Cardinality(BlobEvents(blob)) > 1 =>
                    /\ blob.mergedCount = Cardinality(BlobEvents(blob))
                    /\ blob.radius = 25 + Min(2 * SketchCount(BlobEvents(blob)), 50)
               /\ blob.radius >= 23
               /\ blob.radius <= 75

\* A run whose output has a merged blob of 26 sketches at the largest radius
\* next to a blob of one sketch at the smallest.
C14_Witness ==
    /\ last.op = "clusterBuilder"
    /\ \E i \in 1..Len(last.blobs) :
          /\ last.blobs[i].mergedCount = 2
          /\ Len(last.blobs[i].sketches) = 26
          /\ last.blobs[i].radius = 75
    /\ \E i \in 1..Len(last.blobs) :
          /\ last.blobs[i].mergedCount = 1
          /\ Len(last.blobs[i].sketches) = 1
          /\ last.blobs[i].radius = 23


(***************************************************************************)
(* Properties of the selection animation (specification Spec).             *)
(***************************************************************************)
\* The cloud of a blob drawn at animation time t with a given elapsed time
\* since the start of its selection.
CloudAtElapsed(blob, t, elapsed) ==
    LET n == Len(blob.sketches)
    IN AsSeq([i \in 1..n |->
          LET target == CloudTarget(n, i - 1, t)
          IN [id |-> blob.sketches[i],
              x |-> blob.x + (SubPx * target[1] * EasedNum(elapsed)) \div EasedDen,
              y |-> blob.y + (SubPx * target[2] * EasedNum(elapsed)) \div EasedDen]])

\* C15: the click that selects a single blob leaves the start-time map as it
\* is; the first frame that draws the blob's cloud after that click stores
\* the frame's animation time as the event's start time and draws the cloud
\* at elapsed 0; every later frame of the selection keeps the stored value
\* and draws the cloud at the time elapsed since it.
C15_LazyStartTime ==
    [][ /\ (last'.op = "handleClick" /\ pair'.id /= None /\ pair'.before = "unsel")
              => UNCHANGED selectionTime
        /\ ( /\ pair.id /= None
             /\ pair.before = "unsel"
             /\ selectedEventId = pair.id
             /\ pair'.framed
             /\ SelectedBlobs(prepareBlobs) /= {} ) =>
              LET blobs == prepareBlobs
                  blob == blobs[FirstOf(SelectedBlobs(blobs))]
              IN IF ~pair.framed
                 THEN /\ selectionTime'[pair.id] = animationTime'
                      /\ sketchCloudPositions' = CloudAtElapsed(blob, animationTime', 0)
                 ELSE /\ selectionTime'[pair.id] = selectionTime[pair.id]
                      /\ sketchCloudPositions' =
                            CloudAtElapsed(blob, animationTime', animationTime' - selectionTime[pair.id])
      ]_vars


\* C16: on every frame that draws the selected blob's cloud the time elapsed
\* since the recorded start (a recorded 0 included) is never negative; when
\* it is 0 every cloud item lies on the blob centre; when it is at least the
\* animation duration every item lies on its noise-perturbed target
\* (progress 1).
C16_AnimationBounds ==
    [][ ( /\ mapReady
          /\ last' = NoClick
          /\ UNCHANGED <<mapReady, events, layout, center, zoom, selectedSketch, selectedEventId>>
          /\ SelectedBlobs(prepareBlobs) /= {} ) =>
          LET blobs == prepareBlobs
              blob == blobs[FirstOf(SelectedBlobs(blobs))]
              elapsed == animationTime' - selectionTime'[blob.eventId]
          IN /\ elapsed >= 0
             /\ elapsed = 0 =>
                   \A i \in DOMAIN sketchCloudPositions' :
                       /\ sketchCloudPositions'[i].x = blob.x
                       /\ sketchCloudPositions'[i].y = blob.y
             /\ elapsed >= AnimationTicks =>
                   sketchCloudPositions' = CloudAtElapsed(blob, animationTime', AnimationTicks)
      ]_vars


\* C17: a click that the hit test resolves to an orphan or to a thumbnail of
\* the stored cloud positions sets selectedSketch to a sketch of the list and
\* leaves selectedEventId, the start-time map, the centre and the zoom as
\* they were.
C17_DetailViewOrthogonal ==
    [][ (last'.op = "handleClick" /\ last'.hit.kind \in {"orphan", "cloud"}) =>
          /\ selectedSketch' \in Range(sketches)
          /\ UNCHANGED <<selectedEventId, selectionTime, center, zoom>> ]_vars


(***************************************************************************)
(* The view's effects (specification SpecView): the thumbnail cache, the   *)
(* render loop's frame queue and the teardown of the view.                 *)
(***************************************************************************)
\* The sketches whose thumbnails the image effect wants: those of the
\* selected blob, then the orphans.
WantedSketches ==
    LET blobs == prepareBlobs
        orphanSketches == prepareOrphanSketches
    IN (IF selectedEventId /= None /\ SelectedBlobs(blobs) /= {}
        THEN blobs[FirstOf(SelectedBlobs(blobs))].sketches
        ELSE <<>>)
       \o AsSeq([i \in 1..Len(orphanSketches) |-> orphanSketches[i].sketch])

\* The loads in flight after one run of the image effect for the sketches
\* wanted: a new Image for each sketch whose url is not in the cache.
LoadsStarted(wanted) ==
    [u \in Urls |->
        IF u \in imageCache THEN imageLoads[u]
        ELSE imageLoads[u] + Cardinality({k \in DOMAIN wanted : ImageUrl(wanted[k]) = u})]

\* The commit after a handler: the image cache effect is due when
\* selectedEventId, prepareBlobs or prepareOrphanSketches (sketches, events,
\* zoom) changed.
commitView ==
    /\ effectPending' =
          (<<selectedEventId', sketches', events', zoom'>> /= <<selectedEventId, sketches, events, zoom>>)
    /\ UNCHANGED <<mounted, animationFrame, pendingFrames, imageCache, imageLoads>>

\* The image cache effect: its own part of the effects run after a commit.
imageCacheEffect ==
    /\ mounted
    /\ effectPending
    /\ effectPending' = FALSE
    /\ imageLoads' = LoadsStarted(WantedSketches)
    /\ \A u \in Urls : imageLoads'[u] <= MaxLoads
    /\ UNCHANGED <<mounted, imageCache>>

\* requestAnimationFrame(render) without the cancelAnimationFrame before it.
RequestFrameNoCancel(pending, cancelled) ==
    /\ pendingFrames' = pending + 1
    /\ pendingFrames' <= MaxPendingFrames
    /\ animationFrame' = "pending"

\* requestAnimationFrame(render) stored in animationFrameRef, after the frame
\* the ref named was cancelled (cancelled = TRUE) or left alone.
RequestFrame(pending, cancelled) ==
    /\ pendingFrames' = (IF cancelled /\ animationFrame = "pending" THEN pending - 1 ELSE pending) + 1
    /\ pendingFrames' <= MaxPendingFrames
    /\ animationFrame' = "pending"

\* The render loop effect run again for a new render function: its cleanup
\* cancels the frame animationFrameRef names, its body calls render(), which
\* requests a frame at once without a map and after drawing with one.
renderLoopEffect ==
    /\ RequestFrame(pendingFrames, TRUE)
    /\ IF mapReady
       THEN render
       ELSE UNCHANGED <<sketches, events, mapReady, layout, zoom, center,
                        selectedEventId, selectedSketch, selectionTime,
                        animationTime, sketchCloudPositions, last, pair>>

\* The effects run after a commit that changed selectedEventId, prepareBlobs
\* or prepareOrphanSketches: render is a new function as well.
commitEffects == imageCacheEffect /\ renderLoopEffect

\* A pointer move: setMousePos makes render a new function, and the render
\* loop effect runs again on its own.
mousePosCommit ==
    /\ mounted
    /\ ~effectPending
    /\ renderLoopEffect
    /\ UNCHANGED <<mounted, imageCache, imageLoads, effectPending>>

\* img.onload: the image enters the cache, the frame named by
\* animationFrameRef is cancelled and renderRef.current is requested.
imageOnload ==
    /\ \E u \in Urls :
          /\ imageLoads[u] > 0
          /\ imageLoads' = [imageLoads EXCEPT ![u] = @ - 1]
          /\ imageCache' = imageCache \cup {u}
    /\ RequestFrame(pendingFrames, TRUE)
    /\ UNCHANGED <<sketches, events, mapReady, layout, zoom, center, selectedEventId,
                   selectedSketch, selectionTime, animationTime, sketchCloudPositions,
                   mounted, effectPending, last, pair>>

\* A frame callback fires (the one animationFrameRef names, or another one)
\* and runs render: nothing without a canvas, a new request without a map,
\* else one drawn frame and a new request.
frameCallback ==
    /\ pendingFrames > 0
    /\ \E named \in BOOLEAN :
          /\ named => animationFrame = "pending"
          /\ ~named => pendingFrames > (IF animationFrame = "pending" THEN 1 ELSE 0)
          /\ IF ~mounted
             THEN /\ pendingFrames' = pendingFrames - 1
                  /\ animationFrame' = IF named THEN "done" ELSE animationFrame
                  /\ UNCHANGED <<sketches, events, mapReady, layout, zoom, center,
                                 selectedEventId, selectedSketch, selectionTime,
                                 animationTime, sketchCloudPositions, last, pair>>
             ELSE /\ pendingFrames' = pendingFrames
                  /\ animationFrame' = "pending"
                  /\ IF mapReady
                     THEN render
                     ELSE UNCHANGED <<sketches, events, mapReady, layout, zoom, center,
                                      selectedEventId, selectedSketch, selectionTime,
                                      animationTime, sketchCloudPositions, last, pair>>
    /\ UNCHANGED <<mounted, imageCache, imageLoads, effectPending>>

\* The view is torn down: the cleanup of the render loop effect cancels the
\* frame animationFrameRef names; the canvas and the listeners are gone.
unmountView ==
    /\ mounted
    /\ mounted' = FALSE
    /\ pendingFrames' = IF animationFrame = "pending" THEN pendingFrames - 1 ELSE pendingFrames
    /\ animationFrame' = "done"
    /\ effectPending' = FALSE
    /\ UNCHANGED <<sketches, events, mapReady, layout, zoom, center, selectedEventId,
                   selectedSketch, selectionTime, animationTime, sketchCloudPositions,
                   imageCache, imageLoads, last, pair>>

\* Pointer positions tried in this specification: on blob E3, on empty space.
ViewClickPoints == {<<190, 70>>, <<0, 105>>}

\* handleClick at one of these positions.
handleClickView ==
    /\ mapReady
    /\ LET blobs == prepareBlobs
           orphanSketches == prepareOrphanSketches
       IN \E pt \in ViewClickPoints :
             handleClickAt(pt, HitTest(blobs, orphanSketches, pt[1], pt[2]))

NextView ==
    \/ mounted /\ ~effectPending /\ handleMapReady /\ UNCHANGED viewVars
    \/ mounted /\ ~effectPending /\ fetchEvents /\ commitView
    \/ mounted /\ ~effectPending /\ handleMapZoom /\ commitView
    \/ mounted /\ ~effectPending /\ handleClickView /\ commitView
    \/ commitEffects
    \/ mousePosCommit
    \/ imageOnload
    \/ frameCallback
    \/ unmountView

SpecView == Init /\ [][NextView]_vars

\* C18: no url ever has more than one load in flight: the image effect never
\* starts a load of a url while an earlier load of it is outstanding.
C18_SingleLoadPerUrl ==
    \A u \in Urls : imageLoads[u] <= 1

\* C19: once the view is torn down no frame callback is pending.
C19_NoFrameAfterTeardown ==
    ~mounted => pendingFrames = 0

\* C29: while the view is mounted at most one frame callback is pending,
\* through re-creations of render, the retry without a map and thumbnail
\* load completions.
C29_SinglePendingFrame ==
    mounted => pendingFrames <= 1

\* A thumbnail has loaded and the effects of a selection have run, on a ready
\* map with frames drawn: one frame is pending, the one animationFrameRef names.
C29_Witness ==
    /\ mounted
    /\ mapReady
    /\ selectedEventId /= None
    /\ ~effectPending
    /\ imageCache /= {}
    /\ animationTime > 0
    /\ pendingFrames = 1
    /\ animationFrame = "pending"


(***************************************************************************)
(* The not-ready sentinel (specification SpecBuilder).                     *)
(***************************************************************************)
\* C20: in a Cluster Builder run an event with coordinates and sketches is
\* left out of the blobs exactly when its point projects to the pair
\* (-1000, -1000), a sketch with coordinates and no event is left out of the
\* orphans exactly when its point projects to that pair, and both lists are
\* empty while the map is not ready.
C20_NotReadyExact ==
    last.op = "clusterBuilder" =>
        /\ \A id \in Range(sketches) :
              (RefersToEvent(id) /\ ~Dangling(id) /\ ~EventUnlocated(id)) =>
                  (InBlobs(last.blobs, id) <=> EventPoint(Sketch(id).event_id) /= NOT_READY)
        /\ \A id \in Range(sketches) :
              ( /\ ~TruthyId(Sketch(id).event_id)
                /\ Truthy(Sketch(id).latitude) /\ Truthy(Sketch(id).longitude) ) =>
                  (InOrphans(last.orphans, id) <=> SketchPoint(id) /= NOT_READY)
        /\ ~mapReady => (last.blobs = <<>> /\ last.orphans = <<>>)

(***************************************************************************)
(* Placement of items with a coordinate of 0 (specification SpecBuilder).  *)
(***************************************************************************)
\* A coordinate that is present: any number, 0 included.
Present(c) == c /= Null

\* The point has no coordinate of -1000.
Projected(p) == p[1] /= NotReadyCoord /\ p[2] /= NotReadyCoord

\* Number of output blobs the event is a member of.
BlobsHolding(blobs, e) == Cardinality({i \in DOMAIN blobs : e \in Members(blobs[i])})

\* C21: in a Cluster Builder run on a ready map, every sketch with both
\* coordinates present (0 included) and no event reference is in the orphan
\* list, and every event of the lookup with both coordinates present (0
\* included) that a sketch with present coordinates refers to is a member of
\* exactly one blob, wherever the projected point has no coordinate of -1000.
C21_PlacementComplete ==
    (last.op = "clusterBuilder" /\ mapReady) =>
        /\ \A id \in Range(sketches) :
              ( /\ ~TruthyId(Sketch(id).event_id)
                /\ Present(Sketch(id).latitude) /\ Present(Sketch(id).longitude)
                /\ Projected(SketchPoint(id)) )
                  => InOrphans(last.orphans, id)
        /\ \A e \in DOMAIN events :
              ( /\ Present(events[e].latitude) /\ Present(events[e].longitude)
                /\ Projected(EventPoint(e))
                /\ \E id \in Range(sketches) :
                      /\ Sketch(id).event_id = e
                      /\ Present(Sketch(id).latitude) /\ Present(Sketch(id).longitude) )
                  => BlobsHolding(last.blobs, e) = 1

(***************************************************************************)
(* generatePastelColor on its own (specification SpecColor): event ids     *)
(* written with the characters '-', '0' and 'f', of up to MaxIdLen          *)
(* characters.                                                             *)
(***************************************************************************)
RECURSIVE IdsOfLength(_)
IdsOfLength(n) ==
    IF n = 0 THEN {<<>>}
    ELSE {Append(id, c) : id \in IdsOfLength(n - 1), c \in {45, 48, 102}}

ColorIds == UNION {IdsOfLength(n) : n \in 0..MaxIdLen}

\* The view as constructed, with the event id about to be coloured.
InitColor ==
    /\ sketches \in SketchLists
    /\ events = NoEvents
    /\ mapReady = FALSE
    /\ layout = LayoutClose
    /\ zoom = initialZoom
    /\ center = initialCenter
    /\ selectedEventId = None
    /\ selectedSketch = None
    /\ selectionTime = [e \in {} |-> 0]
    /\ animationTime = 0
    /\ sketchCloudPositions = <<>>
    /\ last \in {[op |-> "eventId", eventId |-> id] : id \in ColorIds}
    /\ pair = NoPair
    /\ InitView

\* The call of generatePastelColor on that id.
generatePastelColorCall ==
    /\ last.op = "eventId"
    /\ last' = [op |-> "generatePastelColor", eventId |-> last.eventId,
                hash |-> HashOf(last.eventId, <<0, 0>>),
                color |-> generatePastelColor(last.eventId)]
    /\ UNCHANGED <<sketches, events, mapReady, layout, zoom, center, selectedEventId,
                   selectedSketch, selectionTime, animationTime, sketchCloudPositions, pair>>

NextColor == generatePastelColorCall /\ UNCHANGED viewVars

SpecColor == InitColor /\ [][NextColor]_vars

\* C25: for every event id generatePastelColor answers one colour, with hue
\* in [0, 360), saturation in [60, 90] and lightness in [65, 80].
C25_PastelRanges ==
    last.op = "generatePastelColor" =>
        /\ last.color = generatePastelColor(last.eventId)
        /\ last.color[1] >= 0 /\ last.color[1] < 360
        /\ last.color[2] >= 60 /\ last.color[2] <= 90
        /\ last.color[3] >= 65 /\ last.color[3] <= 80

(***************************************************************************)
(* The output of the Cluster Builder as a partition (SpecBuilder).         *)
(***************************************************************************)
\* Places of the sketch in the sketch lists of the blobs.
Occurrences(blobs, id) ==
    {<<i, k>> \in (DOMAIN blobs) \X (DOMAIN sketches) :
        k \in DOMAIN blobs[i].sketches /\ blobs[i].sketches[k] = id}

\* C28: in a Cluster Builder run every placed event is a member of exactly
\* one output blob and every member is a placed event, the mergedCounts add
\* up to the number of placed events, and no sketch is in the sketch lists of
\* two blobs, twice in one, or in a blob and in the orphan list.
C28_Partition ==
    last.op = "clusterBuilder" =>
        /\ \A e \in PlacedEventIds : BlobsHolding(last.blobs, e) = 1
        /\ \A i \in DOMAIN last.blobs : Members(last.blobs[i]) \subseteq PlacedEventIds
        /\ SumSeq([i \in DOMAIN last.blobs |-> last.blobs[i].mergedCount])
              = Cardinality(PlacedEventIds)
        /\ \A id \in Range(sketches) :
              /\ Cardinality(Occurrences(last.blobs, id)) <= 1
              /\ ~(InBlobs(last.blobs, id) /\ InOrphans(last.orphans, id))

\* A run that placed three events in two blobs, E1 and E2 merged and E3 alone,
\* with an orphan next to them.
C28_Witness ==
    /\ last.op = "clusterBuilder"
    /\ Cardinality(PlacedEventIds) = 3
    /\ Len(last.blobs) = 2
    /\ last.blobs[1].mergedCount = 2
    /\ last.blobs[2].mergedCount = 1
    /\ Len(last.orphans) = 1

(***************************************************************************)
(* A selection that outlives its blob (specification SpecStale): the       *)
(* sketch list starts with E2, so E2 is the anchor whenever E1 and E2      *)
(* merge, and a selected E1 stops being a representative id.               *)
(***************************************************************************)
InitStale ==
    /\ sketches = ListE2E1E3
    /\ events = NoEvents
    /\ mapReady = FALSE
    /\ layout = LayoutClose
    /\ zoom = initialZoom
    /\ center = initialCenter
    /\ selectedEventId = None
    /\ selectedSketch = None
    /\ selectionTime = [e \in {} |-> 0]
    /\ animationTime = 0
    /\ sketchCloudPositions = <<>>
    /\ last = NoClick
    /\ pair = NoPair
    /\ InitView

SpecStale == InitStale /\ [][Next]_vars

\* An event is selected and no blob of the current geometry carries its id.
StaleSelection == selectedEventId /= None /\ SelectedBlobs(prepareBlobs) = {}

\* C24: while the selected id is the representative id of no blob, a frame
\* draws no thumbnail cloud (stored positions and start times stay as they
\* are), the hit test answers a cloud thumbnail at no pointer position, and
\* no step other than a click changes selectedEventId.
C24_GracefulDegradation ==
    [][ StaleSelection =>
          /\ \A pt \in ClickPoints :
                HitTest(prepareBlobs, prepareOrphanSketches, pt[1], pt[2]).kind /= "cloud"
          /\ last'.op /= "handleClick" => UNCHANGED selectedEventId
          /\ (last' = NoClick /\ UNCHANGED <<mapReady, events, layout, center, zoom,
                                             selectedSketch, selectedEventId>>)
                => UNCHANGED <<sketchCloudPositions, selectionTime>> ]_vars

\* E1 was selected as a blob of its own and its cloud drawn; after the zoom
\* back to 12 it is folded into the blob named E2: the pointer at (0, 105) is
\* on a stored thumbnail position and the hit test answers nothing.
C24_Witness ==
    /\ StaleSelection
    /\ selectedEventId = "E1"
    /\ zoom = 12
    /\ Len(prepareBlobs) = 2
    /\ prepareBlobs[1].mergedEventIds = <<"E2", "E1">>
    /\ CloudHits(0, 105) /= {}
    /\ HitTest(prepareBlobs, prepareOrphanSketches, 0, 105) = NoHit

(***************************************************************************)
(* The cloud of a blob that merged after its selection (specification      *)
(* Spec).                                                                  *)
(***************************************************************************)
\* C26: every frame draws the thumbnail cloud, and stores its positions, for
\* a blob of mergedCount 1 only: a blob selected while single that is now the
\* anchor of a merged blob gets no cloud.
C26_CloudOnlyForSingle ==
    [][ ( /\ last' = NoClick
          /\ UNCHANGED <<mapReady, events, layout, center, zoom, selectedSketch, selectedEventId>>
          /\ SelectedBlobs(prepareBlobs) /= {} )
        => /\ prepareBlobs[FirstOf(SelectedBlobs(prepareBlobs))].mergedCount = 1
           /\ Len(sketchCloudPositions') = Len(sketchesByEvent(selectedEventId)) ]_vars

(***************************************************************************)
(* Hover detection (specification SpecHover): E1 and E2 30 pixels apart,   *)
(* E3 above them and within reach of the same pointer position, the orphan *)
(* next to that position or far away.                                      *)
(***************************************************************************)
HoverLayout(o) == [p \in Places |->
    CASE p = PlaceA -> <<100, 100>>
      [] p = PlaceB -> <<130, 100>>
      [] p = PlaceC -> <<115, 140>>
      [] p = PlaceO -> o]
HoverLayouts == {HoverLayout(<<120, 125>>), HoverLayout(<<300, 300>>)}

\* Pointer positions, in pixels.
HoverPoints == {<<115, 125>>, <<100, 95>>, <<115, 155>>, <<300, 300>>, <<0, 0>>}

InitHover ==
    /\ sketches \in {ListE1E2E3, ListE3E1E2, ListE2E3E1}
    /\ events = NoEvents
    /\ mapReady = FALSE
    /\ layout \in HoverLayouts
    /\ zoom = initialZoom
    /\ center = initialCenter
    /\ selectedEventId = None
    /\ selectedSketch = None
    /\ selectionTime = [e \in {} |-> 0]
    /\ animationTime = 0
    /\ sketchCloudPositions = <<>>
    /\ last = NoClick
    /\ pair = NoPair
    /\ InitView

\* handleMouseMove: a pointer move over the map container (the listener
\* exists once the map is ready); last keeps the two hover fields it set.
handleMouseMove ==
    /\ mapReady
    /\ \E pt \in HoverPoints :
          last' = [op |-> "handleMouseMove", pt |-> pt,
                   hover |-> Hover(prepareBlobs, prepareOrphanSketches, pt[1], pt[2])]
    /\ UNCHANGED <<sketches, events, mapReady, layout, zoom, center, selectedEventId,
                   selectedSketch, selectionTime, animationTime, sketchCloudPositions, pair>>

NextHover ==
    \/ handleMapReady /\ UNCHANGED viewVars
    \/ fetchEvents /\ UNCHANGED viewVars
    \/ handleMapZoom /\ UNCHANGED viewVars
    \/ handleMouseMove /\ UNCHANGED viewVars

SpecHover == InitHover /\ [][NextHover]_vars

\* The pointer is inside the blob's hit circle.
InCircle(blob, pt) ==
    (blob.x - SubPx * pt[1]) * (blob.x - SubPx * pt[1])
      + (blob.y - SubPx * pt[2]) * (blob.y - SubPx * pt[2])
        < (SubPx * blob.radius) * (SubPx * blob.radius)

\* The pointer is within 15px of the orphan.
OnOrphan(orphan, pt) ==
    (orphan.x - pt[1]) * (orphan.x - pt[1]) + (orphan.y - pt[2]) * (orphan.y - pt[2]) < 15 * 15

\* C30: after a pointer move at most one of hoveredBlob and
\* hoveredOrphanSketch is set; with an orphan within 15px the orphan field is
\* set and the blob field is not; hoveredBlob is only ever the id of the
\* first blob in output order whose circle holds the pointer, and only when
\* that blob has mergedCount 1; when that first blob is merged both fields
\* are none, even with a later single blob under the pointer.
C30_HoverRules ==
    last.op = "handleMouseMove" =>
        LET blobs == prepareBlobs
            orphans == prepareOrphanSketches
            hit == {i \in DOMAIN blobs : InCircle(blobs[i], last.pt)}
            near == {i \in DOMAIN orphans : OnOrphan(orphans[i], last.pt)}
        IN /\ ~(last.hover.hoveredBlob /= None /\ last.hover.hoveredOrphanSketch /= None)
           /\ near /= {} =>
                 /\ last.hover.hoveredOrphanSketch \in {orphans[i].sketch : i \in near}
                 /\ last.hover.hoveredBlob = None
           /\ near = {} => last.hover.hoveredOrphanSketch = None
           /\ last.hover.hoveredBlob /= None =>
                 /\ hit /= {}
                 /\ last.hover.hoveredBlob = blobs[FirstOf(hit)].eventId
                 /\ blobs[FirstOf(hit)].mergedCount = 1
           /\ (near = {} /\ hit /= {} /\ blobs[FirstOf(hit)].mergedCount > 1) =>
                 last.hover = NoHover
           /\ (near = {} /\ hit /= {} /\ blobs[FirstOf(hit)].mergedCount = 1) =>
                 last.hover.hoveredBlob = blobs[FirstOf(hit)].eventId

\* The pointer at (115, 125) is inside the merged blob of E1 and E2, first in
\* the output, and inside the single blob of E3 after it, with no orphan
\* near: both hover fields are none.
C30_Witness ==
    /\ last.op = "handleMouseMove"
    /\ last.pt = <<115, 125>>
    /\ Len(prepareBlobs) = 2
    /\ prepareBlobs[1].mergedCount = 2
    /\ prepareBlobs[2].mergedCount = 1
    /\ InCircle(prepareBlobs[1], last.pt)
    /\ InCircle(prepareBlobs[2], last.pt)
    /\ prepareOrphanSketches /= <<>>
    /\ ~OnOrphan(prepareOrphanSketches[1], last.pt)
    /\ last.hover = NoHover


=============================================================================
